---- MODULE Spec2Model ----
(***************************************************************************)
(* A model of the HiPS steganography codecs (app/src/main/cpp):            *)
(*   Format.cpp      bit vector / byte array conversions                   *)
(*   Arithmetic.cpp  arithmetic-coding encoder and decoder                 *)
(*   Huffman.cpp, HuffmanCoding.cpp   Huffman encoder and decoder          *)
(*   LlamaCpp.cpp    the adapter over the language model                   *)
(*                                                                         *)
(* Conventions.  A std::vector<bool> is a sequence over {0,1}; a jbyte is  *)
(* its unsigned value 0..255; a llama_token is its id 0..VocabSize-1.      *)
(* C++ indices are 0-based, TLA+ sequences 1-based: index j of the code is *)
(* element j+1 here.  Probabilities are exact rationals: a probability is  *)
(* an integer numerator over the denominator of its step, so the float     *)
(* operations of the code (division, multiplication, std::round) are       *)
(* done without rounding drift.                                            *)
(***************************************************************************)
EXTENDS Integers, Sequences, FiniteSets, TLC

VARIABLES
    pc,         \* which call of the pipeline is running, or how it ended ("threw": the
                \* token mismatch; "threwNoAsciiNul": the error of LlamaCpp::getAsciiNul)
    pipeline,   \* "encdec": encode, then decode its result; "decenc": the reverse;
                \* "enc", "dec": encode alone, decode alone; "encenc": encode twice
                \* on one llama context
    settings,   \* the arguments of the calls (prompt, temperature, topK, precision, bitsPerToken;
                \* decodeTemperature is the jTemperature given to decode, hasAsciiNul
                \* says which vocabulary the model behind jCtx has)
    llm,        \* the language model: context class -> distribution
    order,      \* how this build's sort and heap order entries of equal weight
    input,      \* the argument of the first call (bytes for encode, tokens for decode)
    ctx,        \* the tokens fed to the llama context during the running call
    enc,        \* the local variables of the encode call
    dec,        \* the local variables of the decode call
    encLog,     \* one record per coded step of the encoder
    decLog,     \* one record per step of the decoder
    fmt         \* the state of the Format conversions (specification SpecFormat)

vars == <<pc, pipeline, settings, llm, order, input, ctx, enc, dec, encLog, decLog, fmt>>

-----------------------------------------------------------------------------
(* Bounds of the model *)

MaxBitLen == 9          \* longest bit vector given to the Format conversions
MaxMsgLen == 1          \* longest secret message of a prompted call, in bytes
MaxCipherBits == 3      \* longest bit string given to decompression
MaxTextLen == 2         \* longest text given to compression, in tokens
MaxPrecision == 3       \* largest precision setting
MaxTopK == 3            \* largest topK setting
MaxTail == 3            \* most greedy steps followed after the message is encoded
MaxSteps == 8           \* most coded steps of one encode call that are followed
MaxGarbage == 1         \* most stray bits an out-of-range read is followed for
MaxWidth == 5           \* largest width of a number given to the Format conversions

-----------------------------------------------------------------------------
(* Sequences and bits *)

Bit == {0, 1}

RECURSIVE BitSeqs(_)
BitSeqs(n) == IF n = 0 THEN {<< >>}
              ELSE LET S == BitSeqs(n - 1)
                   IN  S \cup {Append(s, b) : s \in {t \in S : Len(t) = n - 1}, b \in Bit}

Repeat(b, n) == [k \in 1..n |-> b]

Min(a, b) == IF a < b THEN a ELSE b
Max(a, b) == IF a > b THEN a ELSE b

RECURSIVE SumSeq(_)
SumSeq(s) == IF s = << >> THEN 0 ELSE Head(s) + SumSeq(Tail(s))

-----------------------------------------------------------------------------
(* Format.cpp *)

\* Format::asBitVector(JNIEnv*, jbyteArray): bit j of byte b is (b >> (7 - j)) & 1
AsBitVectorOfBytes(bytes) ==
    [n \in 1..(8 * Len(bytes)) |->
        (bytes[((n - 1) \div 8) + 1] \div (2 ^ (7 - ((n - 1) % 8)))) % 2]

\* Format::asByteArray: size / 8 bytes; bits after the last whole byte are not read
AsByteArray(bitVector) ==
    [b \in 1..(Len(bitVector) \div 8) |->
        SumSeq([j \in 1..8 |-> bitVector[(b - 1) * 8 + j] * (2 ^ (8 - j))])]

\* Format::asBitVectorWithoutPadding reads bits 0..7 and erases [0, 8 + paddingLength):
\* defined behaviour only when the array has a first byte and that many bits
PaddingLength(bitVector) == SumSeq([j \in 1..8 |-> bitVector[j] * (2 ^ (8 - j))])

\* A variant of Format::asBitVectorWithoutPadding that erases the length byte only
AsBitVectorWithoutLengthByte(bytes) ==
    LET bitVector == AsBitVectorOfBytes(bytes)
    IN  SubSeq(bitVector, 8 + 1, Len(bitVector))

AsBitVectorWithoutPadding(bytes) ==
    LET bitVector == AsBitVectorOfBytes(bytes)
        paddingLength == PaddingLength(bitVector)
    IN  SubSeq(bitVector, 8 + paddingLength + 1, Len(bitVector))

\* The byte arrays for which bitVector[0..7] and begin() + 8 + paddingLength are
\* inside the bit vector
ErasesInsideBitVector(bytes) == Len(bytes) >= 1 /\ 8 + bytes[1] <= 8 * Len(bytes)

\* What a call of Format::asBitVectorWithoutPadding comes to.  The function has
\* no test and no throw: for an empty array it reads bits of an empty vector, and
\* for 8 + paddingLength behind the end it erases beyond end(); the process
\* crashes or goes on with stray bits
AsBitVectorWithoutPaddingOutcomes(bytes) ==
    IF ErasesInsideBitVector(bytes)
    THEN {[pc |-> "stripped", stripped |-> AsBitVectorWithoutPadding(bytes)]}
    ELSE {[pc |-> "crashed", stripped |-> << >>]}
         \cup {[pc |-> "stripped", stripped |-> stray] : stray \in BitSeqs(MaxGarbage)}

\* Format::asByteArrayWithPadding
AsByteArrayWithPadding(bitVector) ==
    LET paddingLength == (8 - (Len(bitVector) % 8)) % 8
        paddedBitVector == Repeat(0, paddingLength) \o bitVector
    IN  <<paddingLength>> \o AsByteArray(paddedBitVector)

\* Format::asBitVector(long long, int): bit i is loong & (1LL << (numberOfBits - 1 - i)),
\* so only the low numberOfBits bits of loong (two's complement) are kept
AsBitVector(loong, numberOfBits) ==
    IF numberOfBits = 0 THEN << >>
    ELSE [n \in 1..numberOfBits |->
            ((loong % (2 ^ numberOfBits)) \div (2 ^ (numberOfBits - n))) % 2]

\* A variant of Format::asLong that takes the first bit as the least significant
RECURSIVE AsLongLsbFirst(_)
AsLongLsbFirst(bitVector) ==
    IF bitVector = << >> THEN 0
    ELSE bitVector[1] + 2 * AsLongLsbFirst(Tail(bitVector))

\* Format::asLong
RECURSIVE AsLong(_)
AsLong(bitVector) ==
    IF bitVector = << >> THEN 0
    ELSE 2 * AsLong(SubSeq(bitVector, 1, Len(bitVector) - 1)) + bitVector[Len(bitVector)]

-----------------------------------------------------------------------------
(* The language model behind LlamaCpp.cpp.  llama.cpp itself is not part   *)
(* of the repository: the model is a stub with a five-token vocabulary     *)
(* whose next-token distribution is a function of the tokens fed so far.   *)

\* What llama_vocab_is_eog / llama_vocab_is_control and detokenization say of each token
Vocab == <<
    [text |-> "<eog>", eog |-> TRUE,  control |-> FALSE],     \* token 0
    [text |-> " a",    eog |-> FALSE, control |-> FALSE],     \* token 1
    [text |-> " b.",   eog |-> FALSE, control |-> FALSE],     \* token 2
    [text |-> "",      eog |-> FALSE, control |-> FALSE],     \* token 3, the ASCII NUL token
    [text |-> " c",    eog |-> FALSE, control |-> FALSE] >>   \* token 4

\* LlamaCpp::detokenize of one token.  The model of a call has the vocabulary
\* above, or one whose token 3 is an ordinary word, so that no token is ASCII NUL
Text(token) ==
    IF token = 3 /\ ~settings.hasAsciiNul THEN " d" ELSE Vocab[token + 1].text

\* The texts whose last character is '.', '?' or '!'
SentenceEnds == {" b."}

\* LlamaCpp::getVocabSize
GetVocabSize == Len(Vocab)

Tokens == 0..(GetVocabSize - 1)

\* LlamaCpp::isSpecial
IsSpecial(token) == Vocab[token + 1].eog \/ Vocab[token + 1].control

\* LlamaCpp::isEndOfGeneration
IsEndOfGeneration(token) == Vocab[token + 1].eog

\* LlamaCpp::isEndOfSentence: the answers the call can give.  back() of an empty
\* detokenization reads a byte that is no character of it: either answer
IsEndOfSentence(token) ==
    IF Text(token) = "" THEN BOOLEAN ELSE {Text(token) \in SentenceEnds}

\* LlamaCpp::getEndOfGeneration: eogTokens.front()
GetEndOfGeneration == CHOOSE t \in Tokens :
    IsEndOfGeneration(t) /\ \A u \in Tokens : IsEndOfGeneration(u) => t <= u

\* LlamaCpp::getAsciiNul: the first token whose detokenization compares equal to
\* the literal "\u0000".  operator== takes the literal as a C string, which ends
\* at its first 0 byte: the token is the first whose detokenization is empty
GetAsciiNul == CHOOSE t \in Tokens :
    Text(t) = "" /\ \A u \in Tokens : Text(u) = "" => t <= u

\* LlamaCpp::getAsciiNul returns; without such a token it throws std::runtime_error
HasAsciiNul == \E t \in Tokens : Text(t) = ""

\* exp(logit) of every token, as the stub model gives it for a class of contexts
ExpLogits == <<
    <<1, 1, 1, 1, 1>>,       \* uniform logits
    <<1, 95, 2, 1, 1>>,      \* one token is practically certain
    <<1, 2, 8, 1, 4>>,       \* skewed, the sentence end most likely
    <<2, 3, 1, 6, 4>> >>     \* skewed, ASCII NUL most likely

NumCtxClasses == 2

\* The class of a context: the stub model tells contexts apart by their length and last token
CtxClass(tokens) ==
    IF tokens = << >> THEN 0
    ELSE (Len(tokens) + tokens[Len(tokens)]) % NumCtxClasses

Llms == [0..(NumCtxClasses - 1) -> 1..Len(ExpLogits)]

\* LlamaCpp::getLogits: the batch is appended to the context (ctx \o tokens) and the
\* last row of the logit matrix is returned, here as exp(logit) per token
GetLogits(context) == ExpLogits[llm[CtxClass(context)]]

\* A float is an exact rational [num, den] with den > 0
Rat(n, d) == [num |-> n, den |-> d]
RatLess(x, y) == x.num * y.den < y.num * x.den
RatAdd(x, y) == IF x.den = y.den THEN Rat(x.num + y.num, x.den)
                ELSE Rat(x.num * y.den + y.num * x.den, x.den * y.den)
RatDiv(x, y) == Rat(x.num * y.den, x.den * y.num)       \* y.num > 0

\* std::round: to the nearest integer, halves away from zero
Round(x) == IF x.num >= 0 THEN (2 * x.num + x.den) \div (2 * x.den)
            ELSE 0 - ((2 * (0 - x.num) + x.den) \div (2 * x.den))

\* Statistics::softmax: exp(logits[token]) / denominator
Softmax(logits) == [n \in 1..Len(logits) |-> Rat(logits[n], SumSeq(logits))]

\* LlamaCpp::suppressSpecialTokens: probabilities[token] = 0 for special tokens, no renormalisation
SuppressSpecialTokens(probabilities) ==
    [n \in 1..Len(probabilities) |->
        IF IsSpecial(n - 1) THEN Rat(0, probabilities[n].den) ELSE probabilities[n]]

\* std::sort with the comparator pair1.second > pair2.second.  The order of
\* entries of equal weight is not specified by the library but is a function of
\* the input: Before is that function, fixed per build by order.sort
Before(pair1, pair2, tie) ==
    \/ RatLess(pair2.second, pair1.second)
    \/ /\ ~RatLess(pair1.second, pair2.second)
       /\ IF tie = "asc" THEN pair1.first < pair2.first ELSE pair1.first > pair2.first

RECURSIVE SortDescending(_, _)
SortDescending(pairs, tie) ==
    IF pairs = {} THEN << >>
    ELSE LET top == CHOOSE p \in pairs : \A q \in pairs \ {p} : Before(p, q, tie)
         IN  <<top>> \o SortDescending(pairs \ {top}, tie)

\* Arithmetic.cpp:57-60, Huffman.cpp:38-41: softmax, then suppression
Probabilities(context) == SuppressSpecialTokens(Softmax(GetLogits(context)))

-----------------------------------------------------------------------------
(* Arithmetic.cpp: the cumulative table of one step (encode 66-179, decode 327-415) *)

Pair(token, value) == [first |-> token, second |-> value]

\* lines 67-78 (331-338): probabilities[token] / jTemperature, sorted descending
ScaledProbabilities(probabilities, temperature, tie) ==
    SortDescending({Pair(t, RatDiv(probabilities[t + 1], temperature)) : t \in Tokens}, tie)

\* lines 82-83, 102: pair.second >= 1.0 / currentIntervalRange.  1.0 / 0 is +inf
\* and no weight reaches it; a negative range gives a negative threshold
AtLeastThreshold(value, currentIntervalRange) ==
    IF currentIntervalRange > 0 THEN ~RatLess(value, Rat(1, currentIntervalRange))
    ELSE currentIntervalRange < 0

\* lines 96-106 (344-354): k = min(max(2, count), jTopK)
CandidateCount(scaledProbabilities, currentIntervalRange, topK) ==
    Min(Max(2, Cardinality({n \in 1..Len(scaledProbabilities) :
            AtLeastThreshold(scaledProbabilities[n].second, currentIntervalRange)})), topK)

\* std::vector::resize: cut, or fill with value-initialised elements
Resize(vector, n, fill) ==
    IF n <= Len(vector) THEN SubSeq(vector, 1, n)
    ELSE vector \o Repeat(fill, n - Len(vector))

RECURSIVE RatSum(_)
RatSum(values) == IF values = << >> THEN Rat(0, 1)
                  ELSE RatAdd(RatSum(SubSeq(values, 1, Len(values) - 1)), values[Len(values)])

\* lines 112-125 (357-369): the top k entries, each multiplied by currentIntervalRange / sum
TopScaledProbabilities(scaledProbabilities, k, currentIntervalRange) ==
    LET top == Resize(scaledProbabilities, k, Pair(0, Rat(0, 1)))
        sum == RatSum([n \in 1..Len(top) |-> top[n].second])
    IN  [n \in 1..Len(top) |->
            Pair(top[n].first,
                 Rat(top[n].second.num * currentIntervalRange * sum.den,
                     top[n].second.den * sum.num))]

\* lines 129-134 (372-377): std::round of every entry
RoundedScaledProbabilities(topScaledProbabilities) ==
    [n \in 1..Len(topScaledProbabilities) |->
        Pair(topScaledProbabilities[n].first, Round(topScaledProbabilities[n].second))]

\* lines 138-146 (379-387): running sums
Cumulated(roundedScaledProbabilities) ==
    [n \in 1..Len(roundedScaledProbabilities) |->
        Pair(roundedScaledProbabilities[n].first,
             SumSeq([m \in 1..n |-> roundedScaledProbabilities[m].second]))]

\* lines 150-154 (390-394): the number of entries above the range
Overfill(cumulated, currentIntervalRange) ==
    Cardinality({n \in 1..Len(cumulated) : cumulated[n].second > currentIntervalRange})

\* A variant of lines 164-166 that closes the gap at the last entry only
UnderfillFixLastOnly(cumulated, currentIntervalRange) ==
    IF cumulated = << >> THEN cumulated
    ELSE [cumulated EXCEPT ![Len(cumulated)] = Pair(@.first, currentIntervalRange)]

\* lines 164-166 (401-403): every entry += currentIntervalRange - back().second.
\* The last entry is changed last, so every entry gets the same gap
UnderfillFix(cumulated, currentIntervalRange) ==
    IF cumulated = << >> THEN cumulated
    ELSE LET gap == currentIntervalRange - cumulated[Len(cumulated)].second
         IN  [n \in 1..Len(cumulated) |-> Pair(cumulated[n].first, cumulated[n].second + gap)]

\* lines 170-172 (406-408): every entry += currentInterval.first
Offset(cumulated, bottom) ==
    [n \in 1..Len(cumulated) |-> Pair(cumulated[n].first, cumulated[n].second + bottom)]

\* lines 176-179 (412-415): the token at index size - 1 of both lists becomes ASCII NUL.
\* With an empty table the index is size_t(-1), no index of the lists: they stay as they are
ReplaceLast(pairs, size, token) ==
    IF size < 1 \/ size > Len(pairs) THEN pairs
    ELSE [pairs EXCEPT ![size] = Pair(token, pairs[size].second)]

\* The table of one step: everything lines 66-179 (327-415) compute
Table(probabilities, currentInterval, temperature, topK, tie, isBinaryConversion) ==
    LET currentIntervalRange == currentInterval.second - currentInterval.first
        scaled == ScaledProbabilities(probabilities, temperature, tie)
        k == CandidateCount(scaled, currentIntervalRange, topK)
        top == TopScaledProbabilities(scaled, k, currentIntervalRange)
        rounded == RoundedScaledProbabilities(top)
        sums == Cumulated(rounded)
        overfill == Overfill(sums, currentIntervalRange)
        kept == IF overfill > 0 THEN Resize(sums, Len(sums) - overfill, Pair(0, 0)) ELSE sums
        filled == UnderfillFix(kept, currentIntervalRange)
        final == Offset(filled, currentInterval.first)
    IN  [ k |-> k,
          roundedScaledProbabilities |-> rounded,
          overfill |-> overfill,
          scaledProbabilities |->
              IF isBinaryConversion THEN ReplaceLast(scaled, Len(final), GetAsciiNul) ELSE scaled,
          cumulatedProbabilities |->
              IF isBinaryConversion THEN ReplaceLast(final, Len(final), GetAsciiNul) ELSE final ]

\* lines 184-196: the next jPrecision cipher bits from i, filled up with 0s
CipherBitSubvector(cppCipherBits, i, precision) ==
    LET part == IF i + precision < Len(cppCipherBits)
                THEN SubSeq(cppCipherBits, i + 1, i + precision)
                ELSE SubSeq(cppCipherBits, i + 1, Len(cppCipherBits))
    IN  IF i + precision > Len(cppCipherBits)
        THEN Resize(part, Len(part) + i + precision - Len(cppCipherBits), 0)
        ELSE part

\* A variant of lines 202-208 that compares with >= instead of >
SelectedSubintervalInclusive(cumulatedProbabilities, value) ==
    LET above == {n \in 1..Len(cumulatedProbabilities) : cumulatedProbabilities[n].second >= value}
    IN  IF above = {} THEN Len(cumulatedProbabilities)
        ELSE (CHOOSE n \in above : \A m \in above : n <= m) - 1

\* lines 202-208: std::find_if for the first entry above the cipher bits;
\* the index is size() when there is none
SelectedSubinterval(cumulatedProbabilities, value) ==
    LET above == {n \in 1..Len(cumulatedProbabilities) : cumulatedProbabilities[n].second > value}
    IN  IF above = {} THEN Len(cumulatedProbabilities)
        ELSE (CHOOSE n \in above : \A m \in above : n <= m) - 1

\* lines 419-425: std::find_if for the cover text token in the whole sorted list;
\* the index is size() (the vocabulary size) when it is not there
Rank(scaledProbabilities, token) ==
    LET found == {n \in 1..Len(scaledProbabilities) : scaledProbabilities[n].first = token}
    IN  IF found = {} THEN Len(scaledProbabilities)
        ELSE (CHOOSE n \in found : \A m \in found : n <= m) - 1

\* Arithmetic::numberOfSameBitsFromBeginning
RECURSIVE NumberOfSameBitsFromBeginning(_, _)
NumberOfSameBitsFromBeginning(bitVector1, bitVector2) ==
    IF bitVector1 = << >> \/ bitVector2 = << >> \/ Head(bitVector1) # Head(bitVector2) THEN 0
    ELSE 1 + NumberOfSameBitsFromBeginning(Tail(bitVector1), Tail(bitVector2))

\* lines 238-245 (455-462): drop the first numberOfEncodedBits bits, fill the bottom
\* up with 0s and the top with 1s, and make the top exclusive again
NewInterval(bottomBitsInclusive, topBitsInclusive, numberOfEncodedBits) ==
    LET size == Len(bottomBitsInclusive)
        newIntervalBottomBits ==
            SubSeq(bottomBitsInclusive, numberOfEncodedBits + 1, size) \o Repeat(0, numberOfEncodedBits)
        newIntervalTopBits ==
            SubSeq(topBitsInclusive, numberOfEncodedBits + 1, size) \o Repeat(1, numberOfEncodedBits)
    IN  Pair(AsLong(newIntervalBottomBits), AsLong(newIntervalTopBits) + 1)

\* A variant of Arithmetic::getTopProbability that takes the last entry of the sorted list
GetLeastProbability(probabilities, tie) ==
    SortDescending({Pair(t, probabilities[t + 1]) : t \in Tokens}, tie)[GetVocabSize].first

\* Arithmetic::getTopProbability: the first entry of the sorted probabilities
GetTopProbability(probabilities, tie) ==
    SortDescending({Pair(t, probabilities[t + 1]) : t \in Tokens}, tie)[1].first

-----------------------------------------------------------------------------
(* The calls.  A text is the sequence of its tokens (tokenization is taken *)
(* to be exact for every token that has a text).                           *)

\* LlamaCpp::tokenize
Tokenize(text) == text

\* LlamaCpp::detokenize(JNIEnv*, ...): the texts of the tokens, joined.  A token
\* of empty text leaves no trace in the string
Detokenize(tokens) == SelectSeq(tokens, LAMBDA token : Text(token) # "")

\* Values a read behind the end of cumulatedProbabilities is followed for
StrayEntries(precision) == {Pair(t, c) : t \in Tokens, c \in {0, 2 ^ precision}}

\* cumulatedProbabilities[index]: the entry, or whatever lies behind the vector
ReadEntry(cumulatedProbabilities, index, precision) ==
    IF index < Len(cumulatedProbabilities) THEN {cumulatedProbabilities[index + 1]}
    ELSE StrayEntries(precision)

NoCall == [i |-> 0]

\* A variant of lines 18-20 that reads the bytes the plain way in either mode
ArithmeticEncodeEntryPlain(jContext, jCipherBits, jPrecision) ==
    LET contextTokens == Tokenize(jContext)
        isDecompression == contextTokens = << >>
    IN  [ contextTokens |-> IF isDecompression THEN <<GetEndOfGeneration>> ELSE contextTokens,
          isDecompression |-> isDecompression,
          cppCipherBits |-> AsBitVectorOfBytes(jCipherBits),
          coverTextTokens |-> << >>,
          currentInterval |-> Pair(0, 2 ^ jPrecision),
          i |-> 0,
          isLastSentenceFinished |-> FALSE,
          isFirstRun |-> TRUE,
          sampledToken |-> -1,
          left |-> FALSE,
          coverText |-> << >> ]

\* Arithmetic.cpp:11-45: the locals of encode before its loop
ArithmeticEncodeEntry(jContext, jCipherBits, jPrecision) ==
    LET contextTokens == Tokenize(jContext)
        isDecompression == contextTokens = << >>
    IN  [ contextTokens |-> IF isDecompression THEN <<GetEndOfGeneration>> ELSE contextTokens,
          isDecompression |-> isDecompression,
          cppCipherBits |-> IF isDecompression THEN AsBitVectorWithoutPadding(jCipherBits)
                            ELSE AsBitVectorOfBytes(jCipherBits),
          coverTextTokens |-> << >>,
          currentInterval |-> Pair(0, 2 ^ jPrecision),
          i |-> 0,
          isLastSentenceFinished |-> FALSE,
          isFirstRun |-> TRUE,
          sampledToken |-> -1,
          left |-> FALSE,          \* the break of line 270 was taken
          coverText |-> << >> ]

\* Arithmetic.cpp:282-312: the locals of decode before its loop
ArithmeticDecodeEntry(jContext, jCoverText, jPrecision) ==
    LET contextTokens == Tokenize(jContext)
        isCompression == contextTokens = << >>
    IN  [ contextTokens |-> IF isCompression THEN <<GetEndOfGeneration>> ELSE contextTokens,
          isCompression |-> isCompression,
          coverTextTokens |-> Tokenize(jCoverText),
          currentInterval |-> Pair(0, 2 ^ jPrecision),
          cppCipherBits |-> << >>,
          i |-> 0,
          isFirstRun |-> TRUE,
          coverTextToken |-> -1,
          jCipherBits |-> << >> ]

\* The batch of a step: the context tokens in the first run, then the last token
Batch(isFirstRun, contextTokens, lastToken) ==
    IF isFirstRun THEN contextTokens ELSE <<lastToken>>

\* Arithmetic.cpp:50: the loop condition of encode
ArithmeticEncodeLoops ==
    /\ ~enc.left
    /\ \/ enc.i < Len(enc.cppCipherBits)
       \/ ~enc.isDecompression /\ ~enc.isLastSentenceFinished

\* The table, selection and bit vectors of the encoder's next coded step
ArithmeticEncodeView ==
    LET context == ctx \o Batch(enc.isFirstRun, enc.contextTokens, enc.sampledToken)
        table == Table(Probabilities(context), enc.currentInterval, settings.temperature,
                       settings.topK, order.sort, enc.isDecompression)
        value == AsLong(CipherBitSubvector(enc.cppCipherBits, enc.i, settings.precision))
    IN  [ context |-> context, table |-> table, value |-> value,
          selectedSubinterval |-> SelectedSubinterval(table.cumulatedProbabilities, value) ]

\* A variant of lines 226-233 that takes the number of same bits as it is
NumberOfSameBits(isDecompression, same) == same

\* Arithmetic.cpp:226-233: the cursor moves by the number of same bits, but by 1
\* when a decompression step has none
NumberOfEncodedBits(isDecompression, same) ==
    IF isDecompression /\ same = 0 THEN 1 ELSE same

\* Arithmetic.cpp:63-254 and 264-271: one coded step, given the entry line 215 read
ArithmeticEncodeCodedWith(view, entry) ==
    LET cumulated == view.table.cumulatedProbabilities
        selected == view.selectedSubinterval
        newIntervalBottom == IF selected > 0 THEN cumulated[selected].second
                             ELSE enc.currentInterval.first
        newIntervalTop == entry.second
        bottomBits == AsBitVector(newIntervalBottom, settings.precision)
        topBits == AsBitVector(newIntervalTop - 1, settings.precision)
        same == NumberOfSameBitsFromBeginning(bottomBits, topBits)
        numberOfEncodedBits == NumberOfEncodedBits(enc.isDecompression, same)
    IN  /\ enc' = [enc EXCEPT !.i = @ + numberOfEncodedBits,
                              !.currentInterval = NewInterval(bottomBits, topBits, numberOfEncodedBits),
                              !.sampledToken = entry.first,
                              !.isFirstRun = FALSE,
                              !.coverTextTokens = Append(@, entry.first),
                              !.left = (entry.first = GetAsciiNul)]
        /\ encLog' = Append(encLog,
               [ currentInterval |-> enc.currentInterval,
                 table |-> view.table,
                 i |-> enc.i,
                 value |-> view.value,
                 selectedSubinterval |-> selected,
                 newIntervalBottom |-> newIntervalBottom,
                 newIntervalTop |-> newIntervalTop,
                 same |-> same,
                 numberOfEncodedBits |-> numberOfEncodedBits,
                 sampledToken |-> entry.first ])
        /\ ctx' = view.context

ArithmeticEncodeCoded ==
    /\ pc = "encode"
    /\ ArithmeticEncodeLoops
    /\ enc.i < Len(enc.cppCipherBits)
    /\ Len(encLog) < MaxSteps
    /\ HasAsciiNul
    /\ LET view == ArithmeticEncodeView
       IN  \E entry \in ReadEntry(view.table.cumulatedProbabilities,
                                  view.selectedSubinterval, settings.precision) :
               ArithmeticEncodeCodedWith(view, entry)
    /\ UNCHANGED <<pc, pipeline, settings, llm, order, input, dec, decLog, fmt>>

\* The read of line 215 lies behind the vector and the process is stopped for it
ArithmeticEncodeCrash ==
    /\ pc = "encode"
    /\ ArithmeticEncodeLoops
    /\ enc.i < Len(enc.cppCipherBits)
    /\ Len(encLog) < MaxSteps
    /\ enc.isDecompression => HasAsciiNul
    /\ LET view == ArithmeticEncodeView
       IN  view.selectedSubinterval >= Len(view.table.cumulatedProbabilities)
    /\ pc' = "crashed"
    /\ UNCHANGED <<pipeline, settings, llm, order, input, ctx, enc, dec, encLog, decLog, fmt>>

\* Arithmetic.cpp:256-271: one greedy step
ArithmeticEncodeGreedy ==
    /\ pc = "encode"
    /\ ArithmeticEncodeLoops
    /\ HasAsciiNul
    /\ ~(enc.i < Len(enc.cppCipherBits))
    /\ Len(enc.coverTextTokens) - Len(encLog) < MaxTail
    /\ LET context == ctx \o Batch(enc.isFirstRun, enc.contextTokens, enc.sampledToken)
           token == GetTopProbability(Probabilities(context), order.sort)
       IN  /\ \E isSentenceFinished \in IsEndOfSentence(token) :
                  enc' = [enc EXCEPT !.sampledToken = token,
                                     !.isLastSentenceFinished = isSentenceFinished,
                                     !.coverTextTokens = Append(@, token),
                                     !.left = (token = GetAsciiNul)]
           /\ ctx' = context
    /\ UNCHANGED <<pc, pipeline, settings, llm, order, input, dec, encLog, decLog, fmt>>

\* Arithmetic.cpp:177 and 269: LlamaCpp::getAsciiNul is called in every run of the
\* loop, for the table of a decompression and after the token is appended in
\* every mode; without an ASCII NUL token it throws and encode ends with that
ArithmeticEncodeNoAsciiNul ==
    /\ pc = "encode"
    /\ ArithmeticEncodeLoops
    /\ ~HasAsciiNul
    /\ (enc.i < Len(enc.cppCipherBits) /\ ~enc.isDecompression) =>
           LET view == ArithmeticEncodeView
           IN  view.selectedSubinterval < Len(view.table.cumulatedProbabilities)
    /\ pc' = "threwNoAsciiNul"
    /\ UNCHANGED <<pipeline, settings, llm, order, input, ctx, enc, dec, encLog, decLog, fmt>>

\* Arithmetic.cpp:274-277: the loop is left and the cover text returned; in the
\* pipeline "encdec" decode is called next, with a context of its own
ArithmeticEncodeReturn ==
    /\ pc = "encode"
    /\ ~ArithmeticEncodeLoops
    /\ LET coverText == Detokenize(enc.coverTextTokens)
       IN  /\ enc' = [enc EXCEPT !.coverText = coverText]
           /\ IF pipeline = "encdec"
              THEN /\ pc' = "decode"
                   /\ dec' = ArithmeticDecodeEntry(settings.prompt, coverText, settings.precision)
              ELSE /\ pc' = "done"
                   /\ dec' = dec
    /\ ctx' = << >>
    /\ UNCHANGED <<pipeline, settings, llm, order, input, encLog, decLog, fmt>>

\* The table and rank of the decoder's next step
ArithmeticDecodeView ==
    LET context == ctx \o Batch(dec.isFirstRun, dec.contextTokens, dec.coverTextToken)
        table == Table(Probabilities(context), dec.currentInterval, settings.decodeTemperature,
                       settings.topK, order.sort, dec.isCompression)
    IN  [ context |-> context, table |-> table,
          rank |-> Rank(table.scaledProbabilities, dec.coverTextTokens[dec.i + 1]) ]

\* Arithmetic.cpp:430: rank is an index of scaledProbabilities, never -1
ArithmeticDecodeMismatch(view) == view.rank > Len(view.table.cumulatedProbabilities)

\* Arithmetic.cpp:449-453: the bits inserted into cppCipherBits.  For the last cover
\* text token the range runs from newIntervalTopBitsInclusive.begin() to
\* newIntervalBottomBitsInclusive.end(), iterators of two different vectors: what
\* is read is the top bits, then whatever lies between the two buffers, up to the
\* end of the bottom bits (or the process is stopped, see ArithmeticDecodeCrash)
Inserted(bottomBits, topBits, numberOfEncodedBits, isLast) ==
    IF isLast THEN {topBits \o stray \o bottomBits : stray \in BitSeqs(MaxGarbage)}
    ELSE {SubSeq(topBits, 1, numberOfEncodedBits)}

\* Arithmetic.cpp:315-471: one step of decode, given the entry line 439 read
ArithmeticDecodeWith(view, entry) ==
    LET cumulated == view.table.cumulatedProbabilities
        selectedSubinterval == view.rank
        newIntervalBottom == IF selectedSubinterval > 0 THEN cumulated[selectedSubinterval].second
                             ELSE dec.currentInterval.first
        newIntervalTop == entry.second
        bottomBits == AsBitVector(newIntervalBottom, settings.precision)
        topBits == AsBitVector(newIntervalTop - 1, settings.precision)
        numberOfEncodedBits == NumberOfSameBitsFromBeginning(bottomBits, topBits)
        isLast == dec.i = Len(dec.coverTextTokens) - 1
    IN  \E inserted \in Inserted(bottomBits, topBits, numberOfEncodedBits, isLast) :
            /\ dec' = [dec EXCEPT !.cppCipherBits = @ \o inserted,
                                  !.currentInterval = NewInterval(bottomBits, topBits, numberOfEncodedBits),
                                  !.coverTextToken = dec.coverTextTokens[dec.i + 1],
                                  !.isFirstRun = FALSE,
                                  !.i = @ + 1]
            /\ decLog' = Append(decLog,
                   [ currentInterval |-> dec.currentInterval,
                     table |-> view.table,
                     i |-> dec.i,
                     rank |-> view.rank,
                     newIntervalBottom |-> newIntervalBottom,
                     newIntervalTop |-> newIntervalTop,
                     numberOfEncodedBits |-> numberOfEncodedBits,
                     isLast |-> isLast,
                     inserted |-> inserted,
                     coverTextToken |-> dec.coverTextTokens[dec.i + 1] ])
            /\ ctx' = view.context

ArithmeticDecodeToken ==
    /\ pc = "decode"
    /\ dec.i < Len(dec.coverTextTokens)
    /\ dec.isCompression => HasAsciiNul
    /\ LET view == ArithmeticDecodeView
       IN  /\ ~ArithmeticDecodeMismatch(view)
           /\ \E entry \in ReadEntry(view.table.cumulatedProbabilities, view.rank,
                                     settings.precision) :
                  ArithmeticDecodeWith(view, entry)
    /\ UNCHANGED <<pc, pipeline, settings, llm, order, input, enc, encLog, fmt>>

\* Arithmetic.cpp:430-432: std::invalid_argument, token mismatch at position i
ArithmeticDecodeThrow ==
    /\ pc = "decode"
    /\ dec.i < Len(dec.coverTextTokens)
    /\ dec.isCompression => HasAsciiNul
    /\ ArithmeticDecodeMismatch(ArithmeticDecodeView)
    /\ pc' = "threw"
    /\ UNCHANGED <<pipeline, settings, llm, order, input, ctx, enc, dec, encLog, decLog, fmt>>

\* The read of line 439 lies behind the vector, or the range of lines 449-453 is
\* no range (its end lies before its begin), and the process is stopped for it
ArithmeticDecodeCrash ==
    /\ pc = "decode"
    /\ dec.i < Len(dec.coverTextTokens)
    /\ dec.isCompression => HasAsciiNul
    /\ LET view == ArithmeticDecodeView
       IN  /\ ~ArithmeticDecodeMismatch(view)
           /\ \/ view.rank >= Len(view.table.cumulatedProbabilities)
              \/ dec.i = Len(dec.coverTextTokens) - 1
    /\ pc' = "crashed"
    /\ UNCHANGED <<pipeline, settings, llm, order, input, ctx, enc, dec, encLog, decLog, fmt>>

\* Arithmetic.cpp:413: LlamaCpp::getAsciiNul is called for the table of every step
\* of a compression; without an ASCII NUL token it throws and decode ends with that
ArithmeticDecodeNoAsciiNul ==
    /\ pc = "decode"
    /\ dec.i < Len(dec.coverTextTokens)
    /\ dec.isCompression
    /\ ~HasAsciiNul
    /\ pc' = "threwNoAsciiNul"
    /\ UNCHANGED <<pipeline, settings, llm, order, input, ctx, enc, dec, encLog, decLog, fmt>>

\* Arithmetic.cpp:473-476: the cipher bits are returned as bytes; in the pipeline
\* "decenc" encode is called next, with a context of its own
ArithmeticDecodeReturn ==
    /\ pc = "decode"
    /\ ~(dec.i < Len(dec.coverTextTokens))
    /\ LET jCipherBits == IF dec.isCompression THEN AsByteArrayWithPadding(dec.cppCipherBits)
                          ELSE AsByteArray(dec.cppCipherBits)
       IN  /\ dec' = [dec EXCEPT !.jCipherBits = jCipherBits]
           /\ IF pipeline = "decenc"
              THEN /\ pc' = "encode"
                   /\ enc' = ArithmeticEncodeEntry(settings.prompt, jCipherBits, settings.precision)
              ELSE /\ pc' = "done"
                   /\ enc' = enc
    /\ ctx' = << >>
    /\ UNCHANGED <<pipeline, settings, llm, order, input, encLog, decLog, fmt>>

-----------------------------------------------------------------------------
(* The arithmetic codec: the calls a caller makes and their arguments *)

\* The prompts: a text of two tokens, and the empty text of binary conversion
Prompt == <<1, 4>>
Prompts == {Prompt, << >>}

\* jTemperature, a float > 0
Temperatures == {Rat(1, 1), Rat(1, 4)}

\* Bytes of a secret message (0xB2 and 0xFF are those of the specification's scenarios)
MessageBytes == {0, 85, 178, 255}

RECURSIVE SeqsUpTo(_, _)
SeqsUpTo(S, n) == IF n = 0 THEN {<< >>}
                  ELSE LET T == SeqsUpTo(S, n - 1)
                       IN  T \cup {Append(t, x) : t \in {u \in T : Len(u) = n - 1}, x \in S}

\* Texts a caller can hand over as a Java string: no special token, no ASCII NUL
TextTokens == {t \in Tokens : ~IsSpecial(t) /\ Text(t) # ""}

\* The arguments of a pair of calls
CallSettings(prompts, topKs, precisions, bitsPerTokens) ==
    [ prompt : prompts, temperature : Temperatures, decodeTemperature : Temperatures,
      topK : topKs, precision : precisions, bitsPerToken : bitsPerTokens,
      hasAsciiNul : {TRUE} ]

\* encode and decode are called with the same arguments
ArithmeticSettings ==
    {s \in CallSettings(Prompts, 2..MaxTopK, 2..MaxPrecision, {0}) :
        s.decodeTemperature = s.temperature}

Orders == [sort : {"asc", "desc"}, heap : {"first"}]

NoFormat == [pc |-> "idle"]

Init ==
    /\ llm \in Llms
    /\ order \in Orders
    /\ settings \in ArithmeticSettings
    /\ pipeline \in {"encdec", "decenc"}
    /\ ctx = << >>
    /\ encLog = << >>
    /\ decLog = << >>
    /\ fmt = NoFormat
    /\ \/ /\ pipeline = "encdec"
          /\ \/ /\ settings.prompt # << >>
                /\ input \in SeqsUpTo(MessageBytes, MaxMsgLen)
             \/ /\ settings.prompt = << >>
                /\ input \in {AsByteArrayWithPadding(b) : b \in BitSeqs(MaxCipherBits)}
          /\ pc = "encode"
          /\ enc = ArithmeticEncodeEntry(settings.prompt, input, settings.precision)
          /\ dec = NoCall
       \/ /\ pipeline = "decenc"
          /\ settings.prompt = << >>
          /\ input \in SeqsUpTo(TextTokens, MaxTextLen)
          /\ pc = "decode"
          /\ dec = ArithmeticDecodeEntry(settings.prompt, input, settings.precision)
          /\ enc = NoCall

Next ==
    \/ ArithmeticEncodeCoded
    \/ ArithmeticEncodeCrash
    \/ ArithmeticEncodeGreedy
    \/ ArithmeticEncodeReturn
    \/ ArithmeticDecodeToken
    \/ ArithmeticDecodeThrow
    \/ ArithmeticDecodeCrash
    \/ ArithmeticDecodeReturn

Spec == Init /\ [][Next]_vars

-----------------------------------------------------------------------------
(* Properties of the arithmetic codec (specification Spec) *)

IsPrefix(p, q) == Len(p) <= Len(q) /\ SubSeq(q, 1, Len(p)) = p

Prompted == settings.prompt # << >>

ValidInterval(interval) ==
    0 <= interval.first /\ interval.first < interval.second
        /\ interval.second <= 2 ^ settings.precision

\* The steps both calls logged, encoder first
Steps == [n \in 1..(Len(encLog) + Len(decLog)) |->
            IF n <= Len(encLog) THEN encLog[n] ELSE decLog[n - Len(encLog)]]

\* The cover text encode returned tokenizes to the tokens encode emitted
TokenExact == Tokenize(Detokenize(enc.coverTextTokens)) = enc.coverTextTokens

\* C1: prompted round trip.  When the cover text encode returned for the message
\* m tokenizes to the tokens encode emitted, the call of decode for that cover
\* text (same prompt, settings and model) ends by returning bytes that begin with m.
ArithmeticRoundTrip ==
    (pc \in {"done", "threw", "crashed"} /\ pipeline = "encdec" /\ Prompted /\ TokenExact)
        => (pc = "done" /\ IsPrefix(input, dec.jCipherBits))

\* Every token compression has decoded has a sub-interval of its own in the table
\* of its step, below the topmost one
InTable ==
    \A n \in 1..Len(decLog) :
        decLog[n].rank < Len(decLog[n].table.cumulatedProbabilities) - 1

\* C3: binary conversion text -> bits -> text.  Whenever decompression returns for
\* the bytes compression returned for the text T, every token of which had a
\* sub-interval of its own, the text it returns is T: no token is missing and
\* none is added.
CompressDecompress ==
    (pc = "done" /\ pipeline = "decenc" /\ InTable) => enc.coverText = input

\* C4: binary conversion bits -> text -> bits.  Whenever compression returns for the
\* text decompression returned for the padded bytes of b, the payload of the
\* bytes it returns is b.
DecompressCompress ==
    (pc = "done" /\ pipeline = "encdec" /\ ~Prompted)
        => AsBitVectorWithoutPadding(dec.jCipherBits) = AsBitVectorWithoutPadding(input)

\* Step n of the decoder agrees with coded step n of the encoder: the same interval
\* before the step, the same cumulative table, the same number of bits
InStep(n) ==
    /\ decLog[n].currentInterval = encLog[n].currentInterval
    /\ decLog[n].table.cumulatedProbabilities = encLog[n].table.cumulatedProbabilities
    /\ decLog[n].numberOfEncodedBits = encLog[n].numberOfEncodedBits

\* C5: lockstep.  When decode is given the cover text of encode, every step of
\* the decoder agrees with the encoder's coded step for the same token, in
\* prompted mode and in binary conversion.
Lockstep ==
    pipeline = "encdec" => \A n \in 1..Min(Len(encLog), Len(decLog)) : InStep(n)

\* Lockstep, for prompted calls only
LockstepPrompted ==
    (pipeline = "encdec" /\ Prompted) =>
        \A n \in 1..Min(Len(encLog), Len(decLog)) : InStep(n)

\* C6: the interval of the encoder and of the decoder is always 0 <= lo < hi <= 2^P,
\* in prompted mode and in binary conversion.
IntervalInvariant ==
    /\ (enc # NoCall => ValidInterval(enc.currentInterval))
    /\ (dec # NoCall => ValidInterval(dec.currentInterval))

\* C7: exact tiling.  The final cumulative table of every step is non-empty, its
\* first entry lies above lo and its last entry equals hi.
ExactTiling ==
    \A n \in 1..Len(Steps) :
        LET cumulated == Steps[n].table.cumulatedProbabilities
        IN  /\ cumulated # << >>
            /\ cumulated[1].second > Steps[n].currentInterval.first
            /\ cumulated[Len(cumulated)].second = Steps[n].currentInterval.second

\* C8: no zero-width sub-interval.  In every step every rounded weight of a kept
\* token is >= 1 and the cumulative table is strictly increasing.
NoZeroWidth ==
    \A n \in 1..Len(Steps) :
        LET rounded == Steps[n].table.roundedScaledProbabilities
            cumulated == Steps[n].table.cumulatedProbabilities
        IN  /\ \A m \in 1..Len(rounded) : rounded[m].second >= 1
            /\ \A m \in 1..(Len(cumulated) - 1) : cumulated[m + 1].second - cumulated[m].second >= 1

-----------------------------------------------------------------------------
(* HuffmanNode.h, HuffmanCoding.cpp.  The nodes made with new live in an     *)
(* arena; a HuffmanNode* is an index into it and 0 is nullptr.              *)

\* HuffmanNode::HuffmanNode
HuffmanNode(token, logit, left, right) ==
    [token |-> token, logit |-> logit, left |-> left, right |-> right]

\* HuffmanCoding::buildHuffmanTree: one node per entry, pushed in order.
\* huffmanTree lists the queued nodes in the order they were pushed
BuildHuffmanTree(tokenLogits) ==
    [ nodes |-> [n \in 1..Len(tokenLogits) |->
                    HuffmanNode(tokenLogits[n].first, tokenLogits[n].second, 0, 0)],
      huffmanTree |-> [n \in 1..Len(tokenLogits) |-> n] ]

\* HuffmanCoding.h:22-26 with std::priority_queue: top() is a node no other node
\* is greater than by Compare, that is a node of the highest logit.  Which of
\* several such nodes it is depends on the heap operations of the library and is
\* fixed per build by order.heap.  The result is a position in huffmanTree
Top(nodes, huffmanTree, tie) ==
    LET highest == {n \in 1..Len(huffmanTree) : \A m \in 1..Len(huffmanTree) :
                       ~RatLess(nodes[huffmanTree[n]].logit, nodes[huffmanTree[m]].logit)}
    IN  IF tie = "first" THEN CHOOSE n \in highest : \A m \in highest : n <= m
        ELSE CHOOSE n \in highest : \A m \in highest : n >= m

\* std::priority_queue::pop of the node at a position
Pop(huffmanTree, position) ==
    SubSeq(huffmanTree, 1, position - 1) \o SubSeq(huffmanTree, position + 1, Len(huffmanTree))

\* HuffmanCoding::mergeHuffmanNodes
RECURSIVE MergeHuffmanNodes(_, _)
MergeHuffmanNodes(coding, tie) ==
    IF Len(coding.huffmanTree) <= 1 THEN coding
    ELSE LET leftAt == Top(coding.nodes, coding.huffmanTree, tie)
             left == coding.huffmanTree[leftAt]
             rest == Pop(coding.huffmanTree, leftAt)
             rightAt == Top(coding.nodes, rest, tie)
             right == rest[rightAt]
             mergedHuffmanNode ==
                 HuffmanNode(-1, RatAdd(coding.nodes[left].logit, coding.nodes[right].logit),
                             left, right)
         IN  MergeHuffmanNodes(
                 [ nodes |-> Append(coding.nodes, mergedHuffmanNode),
                   huffmanTree |-> Append(Pop(rest, rightAt), Len(coding.nodes) + 1) ], tie)

\* A variant of generateHuffmanCodesRecursively that appends 1 to the left and 0 to the right
RECURSIVE CodesSwapped(_, _, _)
CodesSwapped(nodes, currentHuffmanNode, currentHuffmanCode) ==
    IF currentHuffmanNode = 0 THEN << >>
    ELSE IF nodes[currentHuffmanNode].token # -1
         THEN << Pair(nodes[currentHuffmanNode].token, currentHuffmanCode) >>
         ELSE CodesSwapped(nodes, nodes[currentHuffmanNode].left, Append(currentHuffmanCode, 1))
              \o CodesSwapped(nodes, nodes[currentHuffmanNode].right, Append(currentHuffmanCode, 0))

\* HuffmanCoding::generateHuffmanCodesRecursively: the assignments
\* huffmanCodes[token] = code, in the order they are made
RECURSIVE GenerateHuffmanCodesRecursively(_, _, _)
GenerateHuffmanCodesRecursively(nodes, currentHuffmanNode, currentHuffmanCode) ==
    IF currentHuffmanNode = 0 THEN << >>
    ELSE IF nodes[currentHuffmanNode].token # -1
         THEN << Pair(nodes[currentHuffmanNode].token, currentHuffmanCode) >>
         ELSE GenerateHuffmanCodesRecursively(nodes, nodes[currentHuffmanNode].left,
                                              Append(currentHuffmanCode, 0))
              \o GenerateHuffmanCodesRecursively(nodes, nodes[currentHuffmanNode].right,
                                                 Append(currentHuffmanCode, 1))

\* HuffmanCoding::generateHuffmanCodes: the root is polled and the codes are stored
GenerateHuffmanCodes(coding, tie) ==
    LET root == coding.huffmanTree[Top(coding.nodes, coding.huffmanTree, tie)]
    IN  [ nodes |-> coding.nodes, root |-> root,
          assignments |-> GenerateHuffmanCodesRecursively(coding.nodes, root, << >>) ]

\* huffmanCodes[token] of the std::unordered_map: the code assigned last, and an
\* empty code, inserted by operator[], for a token that has none
HuffmanCode(assignments, token) ==
    LET at == {n \in 1..Len(assignments) : assignments[n].first = token}
    IN  IF at = {} THEN << >>
        ELSE assignments[CHOOSE n \in at : \A m \in at : n >= m].second

\* Huffman::getTopProbabilities: sorted descending and resized to 1 << jBitsPerToken
\* entries; entries beyond the vocabulary are value-initialised (token 0, 0.0f)
GetTopProbabilities(probabilities, bitsPerToken, tie) ==
    Resize(SortDescending({Pair(t, probabilities[t + 1]) : t \in Tokens}, tie),
           2 ^ bitsPerToken, Pair(0, Rat(0, 1)))

\* Huffman.cpp:46-52 (131-137): the coding of one step
HuffmanCodingOf(probabilities, bitsPerToken) ==
    GenerateHuffmanCodes(
        MergeHuffmanNodes(
            BuildHuffmanTree(GetTopProbabilities(probabilities, bitsPerToken, order.sort)),
            order.heap),
        order.heap)

\* A variant of Huffman.cpp:55-75 that goes right when the message has run out
RECURSIVE WalkRightAtEnd(_, _, _, _)
WalkRightAtEnd(nodes, currentNode, cppCipherBits, i) ==
    IF nodes[currentNode].token # -1
    THEN [sampledToken |-> nodes[currentNode].token, i |-> i]
    ELSE IF i < Len(cppCipherBits) /\ cppCipherBits[i + 1] = 0
         THEN WalkRightAtEnd(nodes, nodes[currentNode].left, cppCipherBits, i + 1)
         ELSE WalkRightAtEnd(nodes, nodes[currentNode].right, cppCipherBits, i + 1)

\* Huffman.cpp:55-75: the walk from a node down to a leaf.  Every node with
\* token -1 was made by a merge and has two children
RECURSIVE Walk(_, _, _, _)
Walk(nodes, currentNode, cppCipherBits, i) ==
    IF nodes[currentNode].token # -1
    THEN [sampledToken |-> nodes[currentNode].token, i |-> i]
    ELSE IF i >= Len(cppCipherBits) \/ cppCipherBits[i + 1] = 0
         THEN Walk(nodes, nodes[currentNode].left, cppCipherBits, i + 1)
         ELSE Walk(nodes, nodes[currentNode].right, cppCipherBits, i + 1)

-----------------------------------------------------------------------------
(* Huffman.cpp: encode and decode *)

\* Huffman.cpp:11-28
HuffmanEncodeEntry(jContext, jCipherBits) ==
    [ contextTokens |-> Tokenize(jContext),
      cppCipherBits |-> AsBitVectorOfBytes(jCipherBits),
      coverTextTokens |-> << >>,
      i |-> 0,
      isLastSentenceFinished |-> FALSE,
      isFirstRun |-> TRUE,
      sampledToken |-> -1,
      coverText |-> << >> ]

\* Huffman.cpp:103-117
HuffmanDecodeEntry(jContext, jCoverText) ==
    [ contextTokens |-> Tokenize(jContext),
      coverTextTokens |-> Tokenize(jCoverText),
      cppCipherBits |-> << >>,
      i |-> 0,
      isFirstRun |-> TRUE,
      coverTextToken |-> -1,
      jCipherBits |-> << >> ]

\* Huffman.cpp:31
HuffmanEncodeLoops == enc.i < Len(enc.cppCipherBits) \/ ~enc.isLastSentenceFinished

\* Huffman.cpp:44-81, 92: one coded step
HuffmanEncodeCoded ==
    /\ pc = "encode"
    /\ HuffmanEncodeLoops
    /\ enc.i < Len(enc.cppCipherBits)
    /\ LET context == ctx \o Batch(enc.isFirstRun, enc.contextTokens, enc.sampledToken)
           huffmanCoding == HuffmanCodingOf(Probabilities(context), settings.bitsPerToken)
           leaf == Walk(huffmanCoding.nodes, huffmanCoding.root, enc.cppCipherBits, enc.i)
       IN  /\ enc' = [enc EXCEPT !.i = leaf.i,
                                 !.sampledToken = leaf.sampledToken,
                                 !.isFirstRun = FALSE,
                                 !.coverTextTokens = Append(@, leaf.sampledToken)]
           /\ encLog' = Append(encLog,
                  [ i |-> enc.i, edges |-> leaf.i - enc.i, sampledToken |-> leaf.sampledToken,
                    huffmanCoding |-> huffmanCoding ])
           /\ ctx' = context
    /\ UNCHANGED <<pc, pipeline, settings, llm, order, input, dec, decLog, fmt>>

\* Huffman.cpp:83-92: one greedy step
HuffmanEncodeGreedy ==
    /\ pc = "encode"
    /\ HuffmanEncodeLoops
    /\ ~(enc.i < Len(enc.cppCipherBits))
    /\ Len(enc.coverTextTokens) - Len(encLog) < MaxTail
    /\ LET context == ctx \o Batch(enc.isFirstRun, enc.contextTokens, enc.sampledToken)
           token == GetTopProbabilities(Probabilities(context), 0, order.sort)[1].first
       IN  /\ \E isSentenceFinished \in IsEndOfSentence(token) :
                  enc' = [enc EXCEPT !.sampledToken = token,
                                     !.isLastSentenceFinished = isSentenceFinished,
                                     !.coverTextTokens = Append(@, token)]
           /\ ctx' = context
    /\ UNCHANGED <<pc, pipeline, settings, llm, order, input, dec, encLog, decLog, fmt>>

\* Huffman.cpp:95-98: the cover text is returned; decode is called next, with a
\* context of its own
HuffmanEncodeReturn ==
    /\ pc = "encode"
    /\ ~HuffmanEncodeLoops
    /\ LET coverText == Detokenize(enc.coverTextTokens)
       IN  /\ enc' = [enc EXCEPT !.coverText = coverText]
           /\ dec' = HuffmanDecodeEntry(settings.prompt, coverText)
    /\ pc' = "decode"
    /\ ctx' = << >>
    /\ UNCHANGED <<pipeline, settings, llm, order, input, encLog, decLog, fmt>>

\* Huffman.cpp:120-153: one step of decode
HuffmanDecodeToken ==
    /\ pc = "decode"
    /\ dec.i < Len(dec.coverTextTokens)
    /\ LET context == ctx \o Batch(dec.isFirstRun, dec.contextTokens, dec.coverTextToken)
           huffmanCoding == HuffmanCodingOf(Probabilities(context), settings.bitsPerToken)
           token == dec.coverTextTokens[dec.i + 1]
           code == HuffmanCode(huffmanCoding.assignments, token)
       IN  /\ dec' = [dec EXCEPT !.cppCipherBits = @ \o code,
                                 !.coverTextToken = token,
                                 !.isFirstRun = FALSE,
                                 !.i = @ + 1]
           /\ decLog' = Append(decLog,
                  [ i |-> dec.i, coverTextToken |-> token, code |-> code,
                    huffmanCoding |-> huffmanCoding ])
           /\ ctx' = context
    /\ UNCHANGED <<pc, pipeline, settings, llm, order, input, enc, encLog, fmt>>

\* Huffman.cpp:155-158
HuffmanDecodeReturn ==
    /\ pc = "decode"
    /\ ~(dec.i < Len(dec.coverTextTokens))
    /\ dec' = [dec EXCEPT !.jCipherBits = AsByteArray(dec.cppCipherBits)]
    /\ pc' = "done"
    /\ ctx' = << >>
    /\ UNCHANGED <<pipeline, settings, llm, order, input, enc, encLog, decLog, fmt>>

\* jBitsPerToken: up to one more than the vocabulary has tokens for
BitsPerTokens == {k \in 1..GetVocabSize : 2 ^ (k - 1) <= GetVocabSize}

HuffmanSettings ==
    [ prompt : {Prompt}, temperature : {Rat(1, 1)}, decodeTemperature : {Rat(1, 1)},
      topK : {0}, precision : {0}, bitsPerToken : BitsPerTokens, hasAsciiNul : {TRUE} ]

\* The bytes of the messages: 01010101 and 10110010
HuffmanMessageBytes == {85, 178}

HuffmanOrders == [sort : {"asc", "desc"}, heap : {"first", "last"}]

InitHuffman ==
    /\ llm \in Llms
    /\ order \in HuffmanOrders
    /\ settings \in HuffmanSettings
    /\ pipeline = "encdec"
    /\ input \in SeqsUpTo(HuffmanMessageBytes, MaxMsgLen)
    /\ ctx = << >>
    /\ encLog = << >>
    /\ decLog = << >>
    /\ fmt = NoFormat
    /\ pc = "encode"
    /\ enc = HuffmanEncodeEntry(settings.prompt, input)
    /\ dec = NoCall

NextHuffman ==
    \/ HuffmanEncodeCoded
    \/ HuffmanEncodeGreedy
    \/ HuffmanEncodeReturn
    \/ HuffmanDecodeToken
    \/ HuffmanDecodeReturn

SpecHuffman == InitHuffman /\ [][NextHuffman]_vars

-----------------------------------------------------------------------------
(* Properties of the Huffman codec (specification SpecHuffman) *)

ValidBitsPerToken == 2 ^ settings.bitsPerToken <= GetVocabSize

HuffmanFixedRate ==
    ValidBitsPerToken =>
        /\ \A n \in 1..Len(encLog) : encLog[n].edges = settings.bitsPerToken
        /\ \A n \in 1..Min(Len(encLog), Len(decLog)) :
               Len(decLog[n].code) = settings.bitsPerToken

-----------------------------------------------------------------------------
(* Format.cpp: a bit vector is written as padded bytes and read back *)

\* Format::asByteArrayWithPadding is called for the bit vector
FormatPad ==
    /\ fmt.pc = "bits"
    /\ fmt' = [fmt EXCEPT !.pc = "padded", !.bytes = AsByteArrayWithPadding(fmt.x)]
    /\ UNCHANGED <<pc, pipeline, settings, llm, order, input, ctx, enc, dec, encLog, decLog>>

\* Format::asBitVectorWithoutPadding is called for the bytes
FormatStrip ==
    /\ fmt.pc = "padded"
    /\ \E outcome \in AsBitVectorWithoutPaddingOutcomes(fmt.bytes) :
           fmt' = [fmt EXCEPT !.pc = outcome.pc, !.stripped = outcome.stripped]
    /\ UNCHANGED <<pc, pipeline, settings, llm, order, input, ctx, enc, dec, encLog, decLog>>

InitFormat ==
    /\ fmt \in [pc : {"bits"}, x : BitSeqs(MaxBitLen), bytes : {<< >>}, stripped : {<< >>}]
    /\ pc = "idle"
    /\ pipeline = "encdec"
    /\ settings \in [ prompt : {<< >>}, temperature : {Rat(1, 1)},
                      decodeTemperature : {Rat(1, 1)}, topK : {0},
                      precision : {0}, bitsPerToken : {0}, hasAsciiNul : {TRUE} ]
    /\ llm \in [0..(NumCtxClasses - 1) -> {1}]
    /\ order \in [sort : {"asc"}, heap : {"first"}]
    /\ input = << >>
    /\ ctx = << >>
    /\ enc = NoCall
    /\ dec = NoCall
    /\ encLog = << >>
    /\ decLog = << >>

NextFormat ==
    \/ FormatPad
    \/ FormatStrip

SpecFormat == InitFormat /\ [][NextFormat]_vars

-----------------------------------------------------------------------------
(* Properties of the padded format (specification SpecFormat) *)

\* C10: padded bit I/O round trip.  Stripping the padded bytes of a bit sequence
\* x of any length gives x back, and the padded bytes of the empty sequence are
\* the single byte 0.
PaddedRoundTrip ==
    /\ fmt.pc = "stripped" => fmt.stripped = fmt.x
    /\ (fmt.pc \in {"padded", "stripped"} /\ fmt.x = << >>) => fmt.bytes = <<0>>

\* A bit sequence of more than 8 bits, with a 1 in it, whose length is no
\* multiple of 8 has been padded and stripped, and is back
PaddedRoundTripDone ==
    /\ fmt.pc = "stripped"
    /\ Len(fmt.x) > 8 /\ Len(fmt.x) % 8 # 0
    /\ \E n \in 1..Len(fmt.x) : fmt.x[n] = 1
    /\ fmt.stripped = fmt.x

-----------------------------------------------------------------------------
(* Format.cpp: a number is written as a bit vector and read back *)

\* Format::asBitVector(long long, int) is called for the number
FormatAsBitVector ==
    /\ fmt.pc = "long"
    /\ fmt' = [fmt EXCEPT !.pc = "bitVector",
                          !.bitVector = AsBitVector(fmt.loong, fmt.numberOfBits)]
    /\ UNCHANGED <<pc, pipeline, settings, llm, order, input, ctx, enc, dec, encLog, decLog>>

\* Format::asLong is called for the bit vector
FormatAsLong ==
    /\ fmt.pc = "bitVector"
    /\ fmt' = [fmt EXCEPT !.pc = "back", !.back = AsLong(fmt.bitVector)]
    /\ UNCHANGED <<pc, pipeline, settings, llm, order, input, ctx, enc, dec, encLog, decLog>>

\* The numbers of a width: 0 <= loong < 2^numberOfBits
Longs == UNION { [pc : {"long"}, numberOfBits : {w}, loong : 0..(2 ^ w - 1),
                  bitVector : {<< >>}, back : {0}] : w \in 0..MaxWidth }

InitLong ==
    /\ fmt \in Longs
    /\ pc = "idle"
    /\ pipeline = "encdec"
    /\ settings \in [ prompt : {<< >>}, temperature : {Rat(1, 1)},
                      decodeTemperature : {Rat(1, 1)}, topK : {0},
                      precision : {0}, bitsPerToken : {0}, hasAsciiNul : {TRUE} ]
    /\ llm \in [0..(NumCtxClasses - 1) -> {1}]
    /\ order \in [sort : {"asc"}, heap : {"first"}]
    /\ input = << >>
    /\ ctx = << >>
    /\ enc = NoCall
    /\ dec = NoCall
    /\ encLog = << >>
    /\ decLog = << >>

NextLong ==
    \/ FormatAsBitVector
    \/ FormatAsLong

SpecLong == InitLong /\ [][NextLong]_vars

-----------------------------------------------------------------------------
(* Properties of the number conversions (specification SpecLong) *)

\* C11: integer/bit-vector round trip.  For every width w and every n with
\* 0 <= n < 2^w the bit vector of n has exactly w bits, most significant first
\* (none for w = 0), and reading it back gives n; the empty vector reads as 0.
LongRoundTrip ==
    /\ fmt.pc \in {"bitVector", "back"} =>
           /\ Len(fmt.bitVector) = fmt.numberOfBits
           /\ \A n \in 1..fmt.numberOfBits : fmt.bitVector[n] \in Bit
           /\ fmt.numberOfBits > 0 =>
                  (fmt.bitVector[1] = 1 <=> fmt.loong >= 2 ^ (fmt.numberOfBits - 1))
    /\ fmt.pc = "back" => fmt.back = fmt.loong
    /\ (fmt.pc = "back" /\ fmt.bitVector = << >>) => fmt.back = 0

\* A number of at least 3 bits whose first and last bit differ has been written
\* and read back
LongRoundTripDone ==
    /\ fmt.pc = "back"
    /\ fmt.numberOfBits >= 3
    /\ fmt.bitVector[1] # fmt.bitVector[fmt.numberOfBits]
    /\ fmt.back = fmt.loong

-----------------------------------------------------------------------------
(* Properties of the arithmetic decoder's error handling (specification Spec) *)

\* C12: arithmetic DecodeMismatch.  At every decoder step whose cover text token
\* has a rank >= the number of candidates (rank = number of candidates included),
\* decode fails with the token mismatch; so no step goes on with such a rank and
\* reads cumulatedProbabilities behind its end.
DecodeMismatchRaised ==
    [][ ( /\ pc = "decode"
          /\ dec.i < Len(dec.coverTextTokens)
          /\ ArithmeticDecodeView.rank >= Len(ArithmeticDecodeView.table.cumulatedProbabilities) )
        => pc' = "threw" ]_vars

-----------------------------------------------------------------------------
(* Properties of the Huffman decoder's error handling (specification SpecHuffman) *)

\* The coding of the Huffman decoder's next step and its cover text token
HuffmanDecodeView ==
    LET context == ctx \o Batch(dec.isFirstRun, dec.contextTokens, dec.coverTextToken)
    IN  [ huffmanCoding |-> HuffmanCodingOf(Probabilities(context), settings.bitsPerToken),
          token |-> dec.coverTextTokens[dec.i + 1] ]

\* The token is a leaf of the step's Huffman tree
HasHuffmanCode(huffmanCoding, token) ==
    \E n \in 1..Len(huffmanCoding.assignments) : huffmanCoding.assignments[n].first = token

\* C13: Huffman DecodeMismatch.  At every decoder step whose cover text token has
\* no code in the step's Huffman tree, decode fails with the token mismatch; it
\* does not append bits (or nothing) and go on.
HuffmanMismatchRaised ==
    [][ ( /\ pc = "decode"
          /\ dec.i < Len(dec.coverTextTokens)
          /\ ~HasHuffmanCode(HuffmanDecodeView.huffmanCoding, HuffmanDecodeView.token) )
        => pc' = "threw" ]_vars

-----------------------------------------------------------------------------
(* The arithmetic codec: decode is called with another temperature than encode *)

\* A prompted encode with one jTemperature and the decode of its cover text with
\* the other; prompt, topK, precision and model are the same
TemperatureSettings ==
    {s \in CallSettings({Prompt}, 2..(GetVocabSize - 1), 2..MaxPrecision, {0}) :
        s.decodeTemperature # s.temperature}

InitTemperature ==
    /\ llm \in Llms
    /\ order \in Orders
    /\ settings \in TemperatureSettings
    /\ pipeline = "encdec"
    /\ input \in SeqsUpTo(MessageBytes, MaxMsgLen)
    /\ ctx = << >>
    /\ encLog = << >>
    /\ decLog = << >>
    /\ fmt = NoFormat
    /\ pc = "encode"
    /\ enc = ArithmeticEncodeEntry(settings.prompt, input, settings.precision)
    /\ dec = NoCall

\* The calls of Next; a prompted encode starts from the whole interval, so that
\* its reads stay inside the table and ArithmeticEncodeCrash is never enabled
NextTemperature ==
    \/ ArithmeticEncodeCoded
    \/ ArithmeticEncodeGreedy
    \/ ArithmeticEncodeReturn
    \/ ArithmeticDecodeToken
    \/ ArithmeticDecodeThrow
    \/ ArithmeticDecodeCrash
    \/ ArithmeticDecodeReturn

SpecTemperature == InitTemperature /\ [][NextTemperature]_vars

\* Step n of the decoder has another table than step n of the encoder
Diverges(n) ==
    \/ n > Len(encLog)
    \/ decLog[n].table.cumulatedProbabilities # encLog[n].table.cumulatedProbabilities

\* C14: decoding with a different temperature.  The decode of a cover text that
\* encode made with another temperature does not return bits: it ends with the
\* token mismatch, raised at the first step that diverges from the encoder.
DifferentTemperatureFails ==
    /\ pc # "done"
    /\ pc # "crashed"
    /\ pc = "threw" => \A n \in 1..Len(decLog) : ~Diverges(n)

-----------------------------------------------------------------------------
(* Properties of the byte conversion at the end of decode (specification SpecHuffman) *)

\* C15: the conversion of the decoded bits to bytes fails when their number is no
\* multiple of 8; a returned byte array holds every decoded bit, none is left out.
NoBitsOmitted ==
    pc = "done" =>
        /\ Len(dec.cppCipherBits) % 8 = 0
        /\ AsBitVectorOfBytes(dec.jCipherBits) = dec.cppCipherBits

-----------------------------------------------------------------------------
(* Properties of the arguments' validation (specification SpecHuffman) *)

\* C16: parameter validation.  A call whose bitsPerToken asks for more leaves than
\* the vocabulary has tokens (2^k > V) fails before the model is called and before
\* a token or a bit is made: it ends with the error and nothing else happens.
InvalidParameterRaised ==
    ~ValidBitsPerToken =>
        /\ pc \in {"encode", "threw"}
        /\ ctx = << >>
        /\ enc.coverTextTokens = << >>
        /\ encLog = << >>
        /\ decLog = << >>

-----------------------------------------------------------------------------
(* The arithmetic codec on a model whose vocabulary has no ASCII NUL token *)

VocabularySettings == {[s EXCEPT !.hasAsciiNul = FALSE] : s \in ArithmeticSettings}

\* encode is called (and decode for what it returns), or decode alone, with a
\* prompt or without
InitVocabulary ==
    /\ llm \in Llms
    /\ order \in Orders
    /\ settings \in VocabularySettings
    /\ pipeline \in {"encdec", "dec"}
    /\ ctx = << >>
    /\ encLog = << >>
    /\ decLog = << >>
    /\ fmt = NoFormat
    /\ \/ /\ pipeline = "encdec"
          /\ \/ /\ settings.prompt # << >>
                /\ input \in SeqsUpTo(MessageBytes, MaxMsgLen)
             \/ /\ settings.prompt = << >>
                /\ input \in {AsByteArrayWithPadding(b) : b \in BitSeqs(MaxCipherBits)}
          /\ pc = "encode"
          /\ enc = ArithmeticEncodeEntry(settings.prompt, input, settings.precision)
          /\ dec = NoCall
       \/ /\ pipeline = "dec"
          /\ input \in SeqsUpTo(TextTokens, MaxTextLen)
          /\ pc = "decode"
          /\ dec = ArithmeticDecodeEntry(settings.prompt, input, settings.precision)
          /\ enc = NoCall

\* The calls of Next and the error of getAsciiNul; without an ASCII NUL token no
\* run of encode's loop ends (ArithmeticEncodeCoded, ArithmeticEncodeGreedy and
\* ArithmeticEncodeCrash are never enabled)
NextVocabulary ==
    \/ ArithmeticEncodeNoAsciiNul
    \/ ArithmeticEncodeReturn
    \/ ArithmeticDecodeToken
    \/ ArithmeticDecodeThrow
    \/ ArithmeticDecodeCrash
    \/ ArithmeticDecodeNoAsciiNul
    \/ ArithmeticDecodeReturn

SpecVocabulary == InitVocabulary /\ [][NextVocabulary]_vars

\* The first call has bits, or a text, to convert
HasInput ==
    IF pipeline = "encdec" THEN enc.cppCipherBits # << >> ELSE dec.coverTextTokens # << >>

\* C17: on a vocabulary without ASCII NUL token, the error for it is raised exactly
\* by the calls with an empty prompt: such a call (with bits or a text to convert)
\* ends with the error, and a call of encode or decode with a prompt never does.
UnsupportedVocabularyExactly ==
    /\ (settings.prompt = << >> /\ HasInput /\ pc \notin {"encode", "decode"})
           => pc = "threwNoAsciiNul"
    /\ settings.prompt # << >> => pc # "threwNoAsciiNul"

-----------------------------------------------------------------------------
(* Properties of the end of a prompted encode (specification Spec) *)

\* The cursor of encode has reached the end of the message bits
MessageEncoded == enc.i >= Len(enc.cppCipherBits)

\* The token encode appended last ends a sentence
SentenceFinished ==
    /\ enc.coverTextTokens # << >>
    /\ Text(enc.coverTextTokens[Len(enc.coverTextTokens)]) \in SentenceEnds

\* encode returns its cover text
EncodeReturns == pc = "encode" /\ pc' \in {"decode", "done"}

\* C18: termination condition of a prompted arithmetic encode.  It stops at the
\* first point where the message is encoded and the last token ends a sentence:
\* it does not return before, and from that point on it appends no token.
EncodeStopsAtSentenceEnd ==
    [][ (pc = "encode" /\ ~enc.isDecompression) =>
          /\ EncodeReturns => (MessageEncoded /\ SentenceFinished)
          /\ (MessageEncoded /\ SentenceFinished) =>
                 enc'.coverTextTokens = enc.coverTextTokens ]_vars

-----------------------------------------------------------------------------
(* Properties of the end of a Huffman encode (specification SpecHuffman) *)

\* The token has the highest probability of all tokens that are not special
IsTopProbability(probabilities, token) ==
    /\ ~IsSpecial(token)
    /\ \A other \in Tokens :
           ~IsSpecial(other) => ~RatLess(probabilities[token + 1], probabilities[other + 1])

\* The token encode appended last was sampled greedily and ends a sentence
GreedySentenceFinished ==
    /\ Len(enc.coverTextTokens) > Len(encLog)
    /\ SentenceFinished

\* C19, the steps of it: once the message bits are consumed every appended token is
\* the most probable token that is not special; after the first such token that
\* ends a sentence no token is appended; and encode returns only a cover text
\* whose last token ends a sentence.
HuffmanEncodeStops ==
    [][ pc = "encode" =>
          /\ (MessageEncoded /\ enc'.coverTextTokens # enc.coverTextTokens) =>
                 IsTopProbability(Probabilities(ctx'),
                                  enc'.coverTextTokens[Len(enc'.coverTextTokens)])
          /\ GreedySentenceFinished => enc'.coverTextTokens = enc.coverTextTokens
          /\ EncodeReturns => SentenceFinished ]_vars

-----------------------------------------------------------------------------
(* The arithmetic codec: a decompression alone, with its steps taken in the end *)

\* encode is called with an empty prompt for the padded bytes of a bit string
InitDecompression ==
    /\ llm \in Llms
    /\ order \in Orders
    /\ settings \in {s \in ArithmeticSettings : s.prompt = << >>}
    /\ pipeline = "enc"
    /\ input \in {AsByteArrayWithPadding(b) : b \in BitSeqs(MaxCipherBits)}
    /\ ctx = << >>
    /\ encLog = << >>
    /\ decLog = << >>
    /\ fmt = NoFormat
    /\ pc = "encode"
    /\ enc = ArithmeticEncodeEntry(settings.prompt, input, settings.precision)
    /\ dec = NoCall

\* The steps of encode.  ArithmeticEncodeGreedy is never enabled in a
\* decompression (DecompressionSteps has its guard)
NextDecompression ==
    \/ ArithmeticEncodeCoded
    \/ ArithmeticEncodeCrash
    \/ ArithmeticEncodeReturn

\* A run of the loop can be taken: the guards of ArithmeticEncodeCoded, which has
\* an entry to read in every state (ArithmeticEncodeCrash is enabled only with it)
ArithmeticEncodeStepEnabled ==
    /\ pc = "encode"
    /\ ArithmeticEncodeLoops
    /\ enc.i < Len(enc.cppCipherBits)
    /\ Len(encLog) < MaxSteps
    /\ HasAsciiNul

\* The call goes on while it has a step to take: weak fairness of the return and
\* of the runs of the loop, the latter written out with the guards for ENABLED
FairDecompression ==
    /\ WF_vars(ArithmeticEncodeReturn)
    /\ \/ []<>(~ArithmeticEncodeStepEnabled)
       \/ []<><<ArithmeticEncodeCoded \/ ArithmeticEncodeCrash>>_vars

SpecDecompression ==
    InitDecompression /\ [][NextDecompression]_vars /\ FairDecompression

-----------------------------------------------------------------------------
(* Properties of a decompression (specification SpecDecompression) *)

\* While the loop runs the cursor is before the end of the bits, so that the
\* branch of line 63 is the coded one (the guard of ArithmeticEncodeGreedy is
\* false).  Every token was made by a coded step that began before the end of the
\* bits and before any ASCII NUL token, and that moved the cursor by at least
\* 1 bit; so there are at most as many tokens as bits
DecompressionSteps ==
    /\ (pc = "encode" /\ ArithmeticEncodeLoops) => enc.i < Len(enc.cppCipherBits)
    /\ Len(enc.coverTextTokens) = Len(encLog)
    /\ \A n \in 1..Len(encLog) :
           /\ encLog[n].numberOfEncodedBits >= 1
           /\ encLog[n].i < Len(enc.cppCipherBits)
           /\ n < Len(encLog) => encLog[n].sampledToken # GetAsciiNul
    /\ Len(enc.coverTextTokens) <= Len(enc.cppCipherBits)
    /\ pc = "done" => (enc.left \/ MessageEncoded)

\* C20: decompression always terminates.  Every step moves the bit cursor by at
\* least 1 (a step without same bits by 1), no greedy step is taken, the loop is
\* left as soon as the ASCII NUL token is sampled or the cursor is at the end, at
\* most as many tokens as bits are sampled, and the call comes to its end.
DecompressionTerminates ==
    /\ []DecompressionSteps
    /\ <>(pc \in {"done", "crashed"})

\* A decompression of 3 bits has returned after a step that had no same bits
DecompressionDone ==
    /\ pc = "done"
    /\ Len(enc.cppCipherBits) = 3
    /\ \E n \in 1..Len(encLog) : encLog[n].same = 0 /\ encLog[n].numberOfEncodedBits = 1
    /\ Len(encLog) >= 2


\* ---------------------------------------------------------------------------
\* C21: model-call ordering.  In every encode call the first model call feeds
\* the whole prompt and every later call feeds exactly the token emitted in the
\* previous step, so after t emitted tokens the model has been fed the prompt
\* followed by the first t - 1 tokens (the t-th is fed by the next call); the
\* decoder has been fed the prompt followed by the cover-text tokens before the
\* one it decoded last.  The prompt is never fed twice, no token is skipped.
Front(tokens) == SubSeq(tokens, 1, Len(tokens) - 1)

ModelCallOrdering ==
    /\ (pc = "encode" /\ enc.coverTextTokens # << >>)
          => ctx = enc.contextTokens \o Front(enc.coverTextTokens)
    /\ (pc = "decode" /\ dec.i > 0)
          => ctx = dec.contextTokens \o SubSeq(dec.coverTextTokens, 1, dec.i - 1)


\* ---------------------------------------------------------------------------
\* C22: last-token rule of the arithmetic decoder.  For every cover-text token
\* except the last the decoder appends exactly the n leading bits shared by lo'
\* and hi' - 1; for the last cover-text token it appends exactly the P bits of
\* lo', most significant bit first.
LastTokenRule ==
    \A s \in 1..Len(decLog) :
        LET step == decLog[s]
            bottomBits == AsBitVector(step.newIntervalBottom, settings.precision)
        IN  step.inserted = IF step.isLast THEN bottomBits
                            ELSE SubSeq(bottomBits, 1, step.numberOfEncodedBits)


\* ---------------------------------------------------------------------------
\* C23: mode selection.  An arithmetic call runs in binary-conversion mode if
\* and only if the tokenized prompt is empty; in that mode the prompt fed to
\* the model is the single first end-of-generation token, encode reads its
\* bytes as a padded byte sequence and decode returns one; with a non-empty
\* prompt both use the plain byte <-> bit conversion and the prompt tokens are
\* fed unchanged.
BinaryConversion == Tokenize(settings.prompt) = << >>

PromptFed == IF BinaryConversion THEN <<GetEndOfGeneration>> ELSE Tokenize(settings.prompt)

\* The bytes handed to encode: the caller's, or those decode returned before
EncodeInput == IF pipeline = "decenc" THEN dec.jCipherBits ELSE input

DecodeReturned ==
    \/ pipeline = "encdec" /\ pc = "done"
    \/ pipeline = "decenc" /\ pc = "encode"

ModeSelection ==
    /\ pc = "encode" =>
          /\ enc.isDecompression <=> BinaryConversion
          /\ enc.contextTokens = PromptFed
          /\ enc.cppCipherBits = IF BinaryConversion
                                 THEN AsBitVectorWithoutPadding(EncodeInput)
                                 ELSE AsBitVectorOfBytes(EncodeInput)
    /\ pc = "decode" =>
          /\ dec.isCompression <=> BinaryConversion
          /\ dec.contextTokens = PromptFed
    /\ ctx # << >> => IsPrefix(PromptFed, ctx)
    /\ DecodeReturned =>
          dec.jCipherBits = IF BinaryConversion
                            THEN AsByteArrayWithPadding(dec.cppCipherBits)
                            ELSE AsByteArray(dec.cppCipherBits)

\* Both calls of a binary conversion have returned, each after steps of its own
ModeSelectionDone ==
    /\ pc = "done"
    /\ BinaryConversion
    /\ encLog # << >>
    /\ decLog # << >>


\* The calls of Spec at temperature 1, for one build and a model whose logits
\* do not depend on the context
InitMode ==
    /\ Init
    /\ settings.temperature = Rat(1, 1)
    /\ order.sort = "desc"
    /\ \A c \in DOMAIN llm : llm[c] = llm[0]

NextMode == Next

SpecMode == InitMode /\ [][NextMode]_vars


-----------------------------------------------------------------------------
(* The arithmetic codec: the same call twice on one llama context *)

\* The runs of the loop that began a call of encode: its cursor is 0 only then
\* (a decompression moves it by at least 1 per run)
CallStarts == {s \in 1..Len(encLog) : encLog[s].i = 0}

\* encode is called for a decompression; the caller keeps jCtx for a later call
InitSameContext ==
    /\ llm \in Llms
    /\ order \in Orders
    /\ settings \in {s \in ArithmeticSettings : s.prompt = << >>}
    /\ pipeline = "encenc"
    /\ input \in {AsByteArrayWithPadding(b) : b \in BitSeqs(MaxCipherBits)}
    /\ ctx = << >>
    /\ encLog = << >>
    /\ decLog = << >>
    /\ fmt = NoFormat
    /\ pc = "encode"
    /\ enc = ArithmeticEncodeEntry(settings.prompt, input, settings.precision)
    /\ dec = NoCall

\* Arithmetic.cpp:274-277 and 9-45: encode returns and the caller calls it again
\* with the same arguments and the same jCtx.  Nothing in encode, decode or
\* LlamaCpp::getLogits clears the llama context, so the tokens of the first call
\* stay in it
ArithmeticEncodeCalledAgain ==
    /\ pc = "encode"
    /\ ~ArithmeticEncodeLoops
    /\ pipeline = "encenc"
    /\ Cardinality(CallStarts) = 1
    /\ enc' = ArithmeticEncodeEntry(settings.prompt, input, settings.precision)
    /\ UNCHANGED <<pc, pipeline, settings, llm, order, input, ctx, dec, encLog, decLog, fmt>>

NextSameContext ==
    \/ ArithmeticEncodeCoded
    \/ ArithmeticEncodeCrash
    \/ ArithmeticEncodeCalledAgain
    \/ ArithmeticEncodeReturn

SpecSameContext == InitSameContext /\ [][NextSameContext]_vars

\* ---------------------------------------------------------------------------
\* C24: purity across calls.  A codec call's output is a function of model,
\* prompt, settings and input only: a second call with the same arguments on
\* the same model context returns the same cover text as the first, whatever
\* ran on the context before.
SecondCallStart == CHOOSE s \in CallStarts : \A r \in CallStarts : r <= s

CallTokens(first, last) == [s \in 1..(last - first + 1) |-> encLog[first + s - 1].sampledToken]

PureAcrossCalls ==
    (pc = "done" /\ Cardinality(CallStarts) = 2) =>
        CallTokens(SecondCallStart, Len(encLog)) = CallTokens(1, SecondCallStart - 1)


\* ---------------------------------------------------------------------------
\* C25: candidate count.  In every arithmetic step the number of kept tokens
\* is k = min(top_k, max(2, c)) with c the number of tokens whose weight is at
\* least 1/R; with top_k >= 2 this gives k >= 2, and the final cumulative table
\* (after the overfill trim) contains at least two sub-intervals.
LoggedSteps == {encLog[s] : s \in 1..Len(encLog)} \cup {decLog[s] : s \in 1..Len(decLog)}

IntervalRange(step) == step.currentInterval.second - step.currentInterval.first

\* weight >= 1/R, with weight = num/den >= 0: every weight when R < 0, none when R = 0
WeightyTokens(step) ==
    Cardinality({n \in 1..Len(step.table.scaledProbabilities) :
        LET weight == step.table.scaledProbabilities[n].second
        IN  IF IntervalRange(step) > 0 THEN weight.num * IntervalRange(step) >= weight.den
            ELSE IntervalRange(step) < 0})

CandidateCountRule ==
    \A step \in LoggedSteps :
        /\ step.table.k = Min(settings.topK, Max(2, WeightyTokens(step)))
        /\ settings.topK >= 2 => step.table.k >= 2
        /\ settings.topK >= 2 => Len(step.table.cumulatedProbabilities) >= 2


\* ---------------------------------------------------------------------------
\* C26: overfill fix.  The entries with a cumulative value above R form a
\* contiguous tail of the table, so removing `overfill` entries from the end
\* removes exactly those entries; afterwards every remaining cumulative value
\* is at most R and at least one entry remains.
CumulatedOf(step) == Cumulated(step.table.roundedScaledProbabilities)

Overfilled(step) ==
    {n \in 1..Len(CumulatedOf(step)) : CumulatedOf(step)[n].second > IntervalRange(step)}

OverfillIsTail ==
    \A step \in LoggedSteps :
        LET size == Len(CumulatedOf(step))
            kept == Len(step.table.cumulatedProbabilities)
        IN  /\ step.table.overfill = Cardinality(Overfilled(step))
            /\ Overfilled(step) = (size - step.table.overfill + 1)..size
            /\ kept = size - step.table.overfill
            /\ \A n \in 1..kept : CumulatedOf(step)[n].second <= IntervalRange(step)
            /\ kept >= 1


\* ---------------------------------------------------------------------------
\* C27: underfill fix.  When the last cumulative value is below R, every
\* entry's cumulative value is increased by the same gap g = R - C_last, taken
\* from the last value before any entry is changed: afterwards C_last = R, the
\* first sub-interval is wider by g, every other width and the order of the
\* entries are unchanged.  When C_last = R the table is unchanged.
KeptOf(step) == SubSeq(CumulatedOf(step), 1, Len(step.table.cumulatedProbabilities))

\* The table after the fix, before the bottom of the interval is added
FilledOf(step) ==
    [n \in 1..Len(step.table.cumulatedProbabilities) |->
        step.table.cumulatedProbabilities[n].second - step.currentInterval.first]

UnderfillRule ==
    \A step \in LoggedSteps :
        LET kept == KeptOf(step)
            filled == FilledOf(step)
            size == Len(kept)
        IN  size > 0 =>
                LET gap == IntervalRange(step) - kept[size].second
                IN  /\ \A n \in 1..size : filled[n] = kept[n].second + gap
                    /\ filled[size] = IntervalRange(step)
                    /\ filled[1] = kept[1].second + gap
                    /\ \A n \in 2..size : filled[n] - filled[n - 1] = kept[n].second - kept[n - 1].second
                    /\ gap = 0 => \A n \in 1..size : filled[n] = kept[n].second
                    /\ \A n \in 1..(size - 1) :
                           step.table.cumulatedProbabilities[n].first = kept[n].first
                    /\ step.table.cumulatedProbabilities[size].first
                           \in {kept[size].first} \cup (IF BinaryConversion THEN {GetAsciiNul} ELSE {})

\* A step whose table of at least two entries had a gap at the top to close
UnderfillClosed ==
    \E step \in LoggedSteps :
        /\ Len(KeptOf(step)) >= 2
        /\ KeptOf(step)[Len(KeptOf(step))].second < IntervalRange(step)


\* ---------------------------------------------------------------------------
\* C28: encoder selection.  With x the integer value of the next P message
\* bits from the cursor (zero-padded on the right when fewer than P remain),
\* the encoder emits the token of the smallest index j with C[j] > y and sets
\* lo' = (j == 0 ? lo : C[j-1]) and hi' = C[j].

\* x: bit m of the P bits from cursor i is worth 2^(P - m); a bit behind the
\* end of the message is 0
NextBitsValue(step) ==
    SumSeq([m \in 1..settings.precision |->
               IF step.i + m <= Len(enc.cppCipherBits)
               THEN enc.cppCipherBits[step.i + m] * 2 ^ (settings.precision - m)
               ELSE 0])

\* The entries of the step's table above y, as 0-based indices
EntriesAbove(step, y) ==
    {j \in 0..(Len(step.table.cumulatedProbabilities) - 1) :
        step.table.cumulatedProbabilities[j + 1].second > y}

\* The step selected the smallest index j with C[j] > y, or the size of the
\* table when no entry is above y, and took lo', hi' and the token from there
SelectedAbove(step, y) ==
    LET C == step.table.cumulatedProbabilities
        j == step.selectedSubinterval
    IN  /\ step.value = NextBitsValue(step)
        /\ IF EntriesAbove(step, y) = {} THEN j = Len(C)
           ELSE j \in EntriesAbove(step, y) /\ \A m \in EntriesAbove(step, y) : j <= m
        /\ step.newIntervalBottom = IF j = 0 THEN step.currentInterval.first ELSE C[j].second
        /\ j < Len(C) => /\ step.newIntervalTop = C[j + 1].second
                         /\ step.sampledToken = C[j + 1].first

SharedLeadingBits(a, b) ==
    LET full == 2 ^ settings.precision
        shared == {n \in 0..settings.precision :
                      (a % full) \div 2 ^ (settings.precision - n)
                          = (b % full) \div 2 ^ (settings.precision - n)}
    IN  CHOOSE n \in shared : \A m \in shared : m <= n

Reformed(newIntervalBottom, newIntervalTop) ==
    LET n == SharedLeadingBits(newIntervalBottom, newIntervalTop - 1)
        full == 2 ^ settings.precision
    IN  [ n |-> n,
          interval |-> Pair((newIntervalBottom * 2 ^ n) % full,
                            (((newIntervalTop - 1) * 2 ^ n) % full) + (2 ^ n - 1) + 1) ]

IntervalReformation ==
    /\ \A s \in 1..Len(encLog) :
          LET step == encLog[s]
              after == IF s < Len(encLog) THEN [i |-> encLog[s + 1].i,
                                                currentInterval |-> encLog[s + 1].currentInterval]
                       ELSE [i |-> enc.i, currentInterval |-> enc.currentInterval]
              rule == Reformed(step.newIntervalBottom, step.newIntervalTop)
          IN  /\ after.i = step.i + rule.n
              /\ after.currentInterval = rule.interval
              /\ rule.n = settings.precision => after.currentInterval = Pair(0, 2 ^ settings.precision)
    /\ \A s \in 1..Len(decLog) :
          LET step == decLog[s]
              after == IF s < Len(decLog) THEN decLog[s + 1].currentInterval
                       ELSE dec.currentInterval
              rule == Reformed(step.newIntervalBottom, step.newIntervalTop)
          IN  /\ step.numberOfEncodedBits = rule.n
              /\ after = rule.interval


\* ---------------------------------------------------------------------------
\* C30: Huffman tree construction.  The merge loop repeatedly removes the two
\* lowest-weight nodes from the priority queue and pushes a parent with token
\* -1 and weight equal to the sum of the two, until one node remains; so at
\* every merge no node left in the queue has a weight smaller than either of
\* the two merged nodes.
MergedNodes(nodes) == {m \in 1..Len(nodes) : nodes[m].left # 0}

\* The nodes left in the queue when the children of m have been removed: made
\* before m and not merged yet
LeftInQueue(nodes, m) ==
    {q \in 1..(m - 1) :
        \A p \in MergedNodes(nodes) : p <= m => q \notin {nodes[p].left, nodes[p].right}}

LowestMerged ==
    \A s \in 1..Len(encLog) :
        LET nodes == encLog[s].huffmanCoding.nodes
        IN  /\ \A m \in MergedNodes(nodes) :
                  /\ nodes[m].token = -1
                  /\ nodes[m].logit = RatAdd(nodes[nodes[m].left].logit, nodes[nodes[m].right].logit)
                  /\ \A q \in LeftInQueue(nodes, m) :
                         /\ ~RatLess(nodes[q].logit, nodes[nodes[m].left].logit)
                         /\ ~RatLess(nodes[q].logit, nodes[nodes[m].right].logit)
            /\ LeftInQueue(nodes, Len(nodes)) = {}
            /\ encLog[s].huffmanCoding.root = Len(nodes)


\* ---------------------------------------------------------------------------
\* C31: Huffman walk at the end of the message.  The encoder consumes one
\* message bit per edge (0 = left, 1 = right); when the message runs out in
\* the middle of a walk every missing bit counts as 0, and the cursor still
\* grows by one per edge: after the step it has advanced by the depth of the
\* leaf and may exceed the length of the message.

\* The bits of the walk of a step: message bits from its cursor, 0 behind the end
WalkBits(step) ==
    [m \in 1..step.edges |->
        IF step.i + m <= Len(enc.cppCipherBits) THEN enc.cppCipherBits[step.i + m] ELSE 0]

\* The node reached from a node along bits, 0 (nullptr) when the way leaves the tree
RECURSIVE Descend(_, _, _)
Descend(nodes, node, bits) ==
    IF bits = << >> \/ node = 0 THEN node
    ELSE Descend(nodes, IF Head(bits) = 0 THEN nodes[node].left ELSE nodes[node].right,
                 Tail(bits))

HuffmanWalkAtEnd ==
    \A s \in 1..Len(encLog) :
        LET step == encLog[s]
            nodes == step.huffmanCoding.nodes
            cursor == IF s < Len(encLog) THEN encLog[s + 1].i ELSE enc.i
            leaf == Descend(nodes, step.huffmanCoding.root, WalkBits(step))
        IN  /\ leaf # 0
            /\ nodes[leaf].token = step.sampledToken
            /\ nodes[leaf].left = 0 /\ nodes[leaf].right = 0
            /\ \A m \in 0..(step.edges - 1) :
                   nodes[Descend(nodes, step.huffmanCoding.root, SubSeq(WalkBits(step), 1, m))].left # 0
            /\ cursor = step.i + step.edges

\* A walk that went on behind the end of the message
HuffmanWalkedPastEnd ==
    \E s \in 1..Len(encLog) :
        /\ encLog[s].i + encLog[s].edges > Len(enc.cppCipherBits)
        /\ encLog[s].edges >= 2


\* ---------------------------------------------------------------------------
\* C32: sentinel placement.  In every step of binary-conversion decompression
\* exactly the last entry of the final cumulative table carries the ASCII NUL
\* token and every other entry keeps the token of its rank, so the encoder
\* emits ASCII NUL exactly when the selected sub-interval is the top one; in
\* prompted mode no table entry is rewritten.
SentinelPlacement ==
    \A s \in 1..Len(encLog) :
        LET step == encLog[s]
            C == step.table.cumulatedProbabilities
            ranked == step.table.roundedScaledProbabilities
            last == Len(C)
        IN  IF BinaryConversion
            THEN /\ last >= 1
                 /\ C[last].first = GetAsciiNul
                 /\ \A n \in 1..(last - 1) :
                        C[n].first = ranked[n].first /\ C[n].first # GetAsciiNul
                 /\ step.sampledToken = GetAsciiNul <=> step.selectedSubinterval = last - 1
            ELSE \A n \in 1..last : C[n].first = ranked[n].first


\* ---------------------------------------------------------------------------
\* C33: greedy tail of the arithmetic encoder.  In every step taken with the
\* cursor at or behind the end of the message the emitted token is the argmax
\* of the suppressed probabilities, and the step leaves the interval and the
\* bit cursor unchanged: only the sentence-finished flag and the list of cover
\* text tokens (with the token sampled last) change.
GreedyStepTaken ==
    /\ pc = "encode"
    /\ pc' = "encode"
    /\ enc.i >= Len(enc.cppCipherBits)
    /\ Len(enc'.coverTextTokens) = Len(enc.coverTextTokens) + 1

GreedyTail ==
    [][ GreedyStepTaken =>
          LET token == enc'.coverTextTokens[Len(enc'.coverTextTokens)]
              probabilities == Probabilities(ctx')
          IN  /\ \A t \in Tokens : ~RatLess(probabilities[token + 1], probabilities[t + 1])
              /\ enc'.currentInterval = enc.currentInterval
              /\ enc'.i = enc.i
              /\ enc'.sampledToken = token
              /\ enc' = [enc EXCEPT !.coverTextTokens = Append(enc.coverTextTokens, token),
                                    !.sampledToken = token,
                                    !.isLastSentenceFinished = enc'.isLastSentenceFinished,
                                    !.left = enc'.left]
              /\ encLog' = encLog ]_vars

\* An encode call that has taken a greedy step after coded steps
GreedyTailTaken ==
    /\ pipeline = "encdec"
    /\ encLog # << >>
    /\ Len(enc.coverTextTokens) > Len(encLog)
    /\ enc.i >= Len(enc.cppCipherBits)


\* ---------------------------------------------------------------------------
\* C34: the message window stays inside the interval.  At the start of every
\* arithmetic-coded encoder step, in prompted mode and in decompression (also
\* after a step whose bit count was forced from 0 to 1), the value x of the
\* next P message bits satisfies lo <= x < hi; so the search for the first
\* entry with C[j] > x finds an index j < |C| and the cumulative table is
\* never indexed out of range.
CodedStepNext ==
    /\ pc = "encode"
    /\ ArithmeticEncodeLoops
    /\ enc.i < Len(enc.cppCipherBits)

WindowInsideInterval ==
    CodedStepNext =>
        LET view == ArithmeticEncodeView
        IN  /\ enc.currentInterval.first <= view.value
            /\ view.value < enc.currentInterval.second
            /\ view.selectedSubinterval < Len(view.table.cumulatedProbabilities)


\* ---------------------------------------------------------------------------
\* C35: special tokens never reach the cover text.  Suppression sets the
\* probability of every end-of-generation and control token to 0 and leaves
\* the others as they are, and no token emitted by the Huffman encoder or by a
\* prompted arithmetic encoder is a special token, for every bitsPerToken and
\* top_k, also when fewer candidates than asked for have a probability above 0.
Suppressed(context) ==
    LET before == Softmax(GetLogits(context))
        after == Probabilities(context)
    IN  \A t \in Tokens : IF IsSpecial(t) THEN after[t + 1].num = 0
                          ELSE after[t + 1] = before[t + 1]

NoSpecialTokenEmitted ==
    (pc = "encode" /\ Prompted) =>
        /\ ctx # << >> => Suppressed(ctx)
        /\ \A n \in 1..Len(enc.coverTextTokens) : ~IsSpecial(enc.coverTextTokens[n])


\* ---------------------------------------------------------------------------
\* C36: a prompted arithmetic encode never returns while message bits remain
\* unconsumed: whatever tokens were emitted, the loop is left only with the
\* cursor at or behind the end of the message.
MessageConsumedAtReturn ==
    [][ (Prompted /\ EncodeReturns) => enc.i >= Len(enc.cppCipherBits) ]_vars



\* ---------------------------------------------------------------------------
\* C37: well-formed Huffman codes.  The tree built in a step is a full binary
\* tree over the 2^k candidates: every internal node (token -1) has two
\* children, every candidate token is exactly one leaf, so each of the 2^k
\* tokens gets exactly one code, the codes are pairwise prefix-free, and the
\* code the decoder looks up for the emitted token is the bit path the encoder
\* walked to it.
WellFormedHuffmanCodes ==
    \A s \in 1..Len(encLog) :
        LET step == encLog[s]
            nodes == step.huffmanCoding.nodes
            assignments == step.huffmanCoding.assignments
            leaves == {n \in 1..Len(nodes) : nodes[n].token # -1}
        IN  /\ \A n \in 1..Len(nodes) :
                   IF nodes[n].token = -1
                   THEN nodes[n].left # 0 /\ nodes[n].right # 0
                   ELSE nodes[n].left = 0 /\ nodes[n].right = 0
            /\ Cardinality(leaves) = 2 ^ settings.bitsPerToken
            /\ \A m, n \in leaves : m # n => nodes[m].token # nodes[n].token
            /\ Len(assignments) = 2 ^ settings.bitsPerToken
            /\ \A m, n \in 1..Len(assignments) :
                   m # n => /\ assignments[m].first # assignments[n].first
                            /\ ~IsPrefix(assignments[m].second, assignments[n].second)
            /\ HuffmanCode(assignments, step.sampledToken) = WalkBits(step)



-----------------------------------------------------------------------------
(* Format.cpp: asBitVectorWithoutPadding is called for any byte array *)

MaxBytes == 2           \* most bytes of a byte array handed to asBitVectorWithoutPadding

\* First bytes: no padding, the most a padded message has, a whole byte, one more
\* than a whole byte, and the largest value of a byte
ByteValues == {0, 1, 7, 8, 9, 16, 255}

ByteArrays == UNION {[1..n -> ByteValues] : n \in 0..MaxBytes}

InitMalformed ==
    /\ fmt \in [pc : {"padded"}, x : {<< >>}, bytes : ByteArrays, stripped : {<< >>}]
    /\ pc = "idle"
    /\ pipeline = "encdec"
    /\ settings \in [ prompt : {<< >>}, temperature : {Rat(1, 1)},
                      decodeTemperature : {Rat(1, 1)}, topK : {0},
                      precision : {0}, bitsPerToken : {0}, hasAsciiNul : {TRUE} ]
    /\ llm \in [0..(NumCtxClasses - 1) -> {1}]
    /\ order \in [sort : {"asc"}, heap : {"first"}]
    /\ input = << >>
    /\ ctx = << >>
    /\ enc = NoCall
    /\ dec = NoCall
    /\ encLog = << >>
    /\ decLog = << >>

NextMalformed == FormatStrip

SpecMalformed == InitMalformed /\ [][NextMalformed]_vars

\* C38: malformed padded input is rejected.  For an empty byte array, or a first
\* byte p with 8 + p greater than the 8 * len bits there are, the call fails with
\* MalformedBitstream; for every other input it returns exactly
\* 8 * len - 8 - p bits.
MalformedRejected ==
    fmt.pc # "padded" =>
        IF Len(fmt.bytes) = 0 \/ 8 + fmt.bytes[1] > 8 * Len(fmt.bytes)
        THEN fmt.pc = "threwMalformedBitstream"
        ELSE /\ fmt.pc = "stripped"
             /\ Len(fmt.stripped) = 8 * Len(fmt.bytes) - 8 - fmt.bytes[1]

====
